---- MODULE Spec2Model ----
(***************************************************************************)
(* Quantum-mining: the game component (GameCanvas, the variant that takes  *)
(* the sector and onSectorCleared props) under the App that owns the phase,*)
(* the sector index, the ship and the upgrades.                            *)
(*                                                                         *)
(* One state of the model is the program between two callbacks: a frame of *)
(* the loop (update), a key event, a click in the overlay.  A phase change *)
(* requested in a callback is committed, and the component's effects are   *)
(* run, before the next callback (React renders and flushes effects before *)
(* the next animation frame); several setGameState calls of one frame are  *)
(* batched and the last one wins.                                          *)
(*                                                                         *)
(* Numbers.  The code computes in floats; the model keeps integers:        *)
(*  - the field is the vertical axis through the station (x = 0, vx = 0,   *)
(*    ship heading -PI/2 as initGame sets it, no rotation input), and a    *)
(*    position is a multiple of Cell world units;                          *)
(*  - the control step (thrust 0.17/tick, brake, cap, friction 0.98) is    *)
(*    an input: the velocity it leaves the ship with, one of ShipVels, and *)
(*    whether the ship crosses into the next cell in that direction;       *)
(*  - an asteroid stays in its cell: its drift (at most a few units per    *)
(*    tick), spin, damping and the station force field are below the       *)
(*    resolution of the lattice, as are the 0.5/tick pucker and tractor    *)
(*    forces; two bodies in one cell are apart by less than a cell: the    *)
(*    ship is taken on the station's side (ShipSide), an asteroid on the   *)
(*    far side of a mine (AsteroidSide);                                   *)
(*  - of the random draws only the titan count of a sector is an input;    *)
(*    seeds are put in the first cell at or beyond the least distance      *)
(*    their randomRange can return (the ambient ore one cell further, so   *)
(*    that it lies behind the titans), fragments at their parent's cell    *)
(*    with 0.3 of the impact velocity and no radial part;                  *)
(*  - hit points are kept doubled (hp2 = 2 * hp), so that the laser's      *)
(*    1 + 0.5 * laserLevel per tick is the integer 2 + laserLevel;         *)
(*  - particles are cosmetic: the model keeps, per remaining life, the     *)
(*    number of particles made by a break, a detonation or a pucker; the   *)
(*    sparks of thrusters, laser impact and shield are not kept; the       *)
(*    screen shake and the camera position are not kept either.            *)
(*                                                                         *)
(* Players.  The callbacks are the program's; which of them come, and with *)
(* which inputs, is the player's choice, and each specification bounds it: *)
(* Spec is a flight without the shop (the player drops mines one at a      *)
(* time and leaves the controls alone in the middle of a countdown),       *)
(* SpecShop is a first sector with the shop, SpecHaul is one way of        *)
(* playing a game through, move by move.                                   *)
(***************************************************************************)
EXTENDS Integers, Sequences, FiniteSets, TLC

\* ------------------------------------------------------------ constants.ts
STARTING_CREDITS == 100
STARTING_AMMO == 3
ORE_VALUE == 25
MINE_PUCKER_DURATION == 60
MINE_BLAST_RADIUS == 300
MINE_BLAST_FORCE == 15
LASER_RANGE == 250
STATION_RADIUS == 150
SHIP_RADIUS == 15
TITAN_RADIUS == 60
CHUNK_RADIUS == 25
ORE_RADIUS == 5
VOLATILE_RADIUS == 50
UPGRADE_COST_BASE == 150

\* ------------------------------------------------ literals of the handlers
MINE_TIMER == 180
AMMO_COST == 50
LAUNCH_SPEED == 6
SPAWN_SPEED == 4
SPAWN_INVULNERABLE == 60
HIT_INVULNERABLE == 60
BLAST_INVULNERABLE == 30
BLAST_HULL_DAMAGE == 50
AMBIENT_ORE == 10
BASE_TITANS == 4

\* ------------------------------------------------------------------ bounds
MaxCell == 6
Reach == 4
MaxSector == 2
MaxLevel == 2
MaxAmmo == 3
MaxMines == 2
MaxCalls == 2
MaxDrops == 2

Cell == STATION_RADIUS

Abs(n) == IF n < 0 THEN -n ELSE n
Sgn(n) == IF n < 0 THEN -1 ELSE IF n > 0 THEN 1 ELSE 0
Min(a, b) == IF a < b THEN a ELSE b
Mid(lo, hi) == (lo + hi) \div 2

\* distance (utils/physics), on the axis
distance(y1, y2) == Abs(y2 - y1)

\* checkCollision (utils/physics): dist < e1.radius + e2.radius
checkCollision(y1, r1, y2, r2) == distance(y1, y2) < r1 + r2

VARIABLES
  gameState,              \* App: useState<GameState>
  sector,                 \* App: useState(1)
  sectorStats,            \* App: useState({percent, ore})
  ship,                   \* App: shipRef.current
  upgrades,               \* App: upgradesRef.current
  asteroids,              \* GameCanvas: asteroidsRef.current
  mines,                  \* GameCanvas: minesRef.current
  particles,              \* GameCanvas: particlesRef.current (count per remaining life)
  prevGameState,          \* GameCanvas: prevGameState.current
  prevSector,             \* GameCanvas: prevSector.current
  levelInitialAsteroids,  \* GameCanvas: levelInitialAsteroids.current
  sectorOreCollected,     \* GameCanvas: sectorOreCollected.current
  cameraRef,              \* GameCanvas: cameraRef.current (its zoom)
  audio,                  \* utils/audio: the AudioController's context and loop flags
  clearedCalls,           \* history: onSectorCleared calls since the last re-seed (saturates at MaxCalls)
  tickLog                 \* history: the last callback, and what a frame did

vars == << gameState, sector, sectorStats, ship, upgrades, asteroids, mines, particles,
           prevGameState, prevSector, levelInitialAsteroids, sectorOreCollected,
           cameraRef, audio, clearedCalls, tickLog >>

TruncDiv(a, b) == IF a >= 0 THEN a \div b ELSE -((-a) \div b)

\* ------------------------------------------------------------ particles
\* spawnParticles(x, y, color, count, speed, life): count particles of that life
PARTICLE_MAX_LIFE == 45
NoParticles == [l \in 1..PARTICLE_MAX_LIFE |-> 0]

spawnParticles(p, count, life) == [p EXCEPT ![life] = @ + count]

\* update, 8. Particles: life--, then filter(p => p.life > 0)
StepParticles(p) ==
  [l \in 1..PARTICLE_MAX_LIFE |-> IF l < PARTICLE_MAX_LIFE THEN p[l + 1] ELSE 0]

\* ------------------------------------------------------------ asteroids
Tiers == {"TITAN", "CHUNK", "ORE", "VOLATILE"}

Radius(tier) ==
  CASE tier = "TITAN" -> TITAN_RADIUS
    [] tier = "VOLATILE" -> VOLATILE_RADIUS
    [] tier = "CHUNK" -> CHUNK_RADIUS
    [] OTHER -> ORE_RADIUS

\* spawnAsteroid: the record pushed on asteroidsRef (hp doubled; breaks and picks
\* are history: the breakAsteroid calls and the pickups this asteroid has had)
spawnAsteroid(tier, y, vy) ==
  [ tier |-> tier,
    hp2  |-> CASE tier = "TITAN" -> 2 * 1000
               [] tier = "VOLATILE" -> 2 * 800
               [] tier = "CHUNK" -> 2 * 50
               [] OTHER -> 2 * 1,
    y    |-> y,
    vy   |-> vy,
    breaks |-> 0,
    picks  |-> 0 ]

Repeat(n, e) == [i \in 1..n |-> e]

\* a variant of breakAsteroid in which a TITAN would break as a VOLATILE does
breakAsteroidAllAlike(ast, impactVy) ==
  CASE ast.tier \in {"VOLATILE", "TITAN"} ->
         Repeat(8, spawnAsteroid("CHUNK", ast.y, TruncDiv(impactVy * 3, 10)))
    [] ast.tier = "CHUNK" -> Repeat(10, spawnAsteroid("ORE", ast.y, TruncDiv(impactVy * 3, 10)))
    [] OTHER -> << >>

\* a variant of breakAsteroid in which a TITAN would break into TITANs
breakAsteroidInKind(ast, impactVy) ==
  CASE ast.tier = "VOLATILE" -> Repeat(8, spawnAsteroid("CHUNK", ast.y, TruncDiv(impactVy * 3, 10)))
    [] ast.tier = "TITAN"    -> Repeat(5, spawnAsteroid("TITAN", ast.y, TruncDiv(impactVy * 3, 10)))
    [] ast.tier = "CHUNK"    -> Repeat(10, spawnAsteroid("ORE", ast.y, TruncDiv(impactVy * 3, 10)))
    [] OTHER -> << >>

\* breakAsteroid: the fragments it pushes (at the parent's cell, with 0.3 of the
\* impact velocity; the random radial part of a fragment's velocity is taken 0)
breakAsteroid(ast, impactVy) ==
  CASE ast.tier = "VOLATILE" -> Repeat(8, spawnAsteroid("CHUNK", ast.y, TruncDiv(impactVy * 3, 10)))
    [] ast.tier = "TITAN"    -> Repeat(5, spawnAsteroid("CHUNK", ast.y, TruncDiv(impactVy * 3, 10)))
    [] ast.tier = "CHUNK"    -> Repeat(10, spawnAsteroid("ORE", ast.y, TruncDiv(impactVy * 3, 10)))
    [] OTHER -> << >>

\* breakAsteroid: the dust it makes, spawnParticles(ast.x, ast.y, ast.color, 8, 2, 25)
breakDust(p) == spawnParticles(p, 8, 25)

\* a variant of Broken that would take the broken asteroid out of the list at once
BrokenAndRemoved(asts, i, impactVy) ==
  SubSeq(asts, 1, i - 1) \o SubSeq(asts, i + 1, Len(asts))
    \o breakAsteroid(asts[i], impactVy)

\* a call breakAsteroid(ast, ..): the list with ast (at index i) marked as broken
\* and the fragments pushed behind it, and the record of the call
Broken(asts, i, impactVy) ==
  [asts EXCEPT ![i].breaks = @ + 1] \o breakAsteroid(asts[i], impactVy)

BreakRecord(ast, impactVy) ==
  [ tier |-> ast.tier, added |-> Len(breakAsteroid(ast, impactVy)) ]

\* ------------------------------------------------------------ App: stats
\* recalcStats
recalcStats(s, u) ==
  LET s1 == [s EXCEPT !.maxHull = 100 + (u.hullLevel - 1) * 50]
      s2 == IF s1.hull > s1.maxHull THEN [s1 EXCEPT !.hull = s1.maxHull] ELSE s1
      s3 == [s2 EXCEPT !.maxCargo = 20 + (u.cargoLevel - 1) * 20,
                       !.maxShield = u.shieldLevel * 100]
  IN IF u.shieldLevel > 0 /\ s3.shield < s3.maxShield
       THEN [s3 EXCEPT !.shield = s3.maxShield]
       ELSE s3

InitialUpgrades ==
  [ engineLevel |-> 1, handlingLevel |-> 1, hullLevel |-> 1,
    cargoLevel |-> 1, laserLevel |-> 1, shieldLevel |-> 0 ]

\* ------------------------------------------------------------ initGame
\* the distances of the seeds from the station, on the lattice: the first cell at
\* or beyond the least distance randomRange can return (titans 500, volatiles
\* 800), the ambient ore (400 to 1000) in the cell behind the titans
TitanSeedY == -4 * Cell
VolatileSeedY == -6 * Cell
OreSeedY == -5 * Cell

\* titanCount = floor(4 + (sector - 1) * randomRange(2, 5)): the counts it can
\* take.  randomRange(2, 5) is Math.random() * 3 + 2 in binary64: for the largest
\* binary64 number below 1 the sum rounds to 5, so the factor lies in 2..5 with
\* both ends
TitanCounts(sec) ==
  IF sec = 1 THEN {BASE_TITANS}
  ELSE (BASE_TITANS + 2 * (sec - 1)) .. (BASE_TITANS + 5 * (sec - 1))

\* a variant of volatileCount that would add one VOLATILE per sector
volatileCountBySector(sec) == sec - 1

\* initGame: volatileCount = Math.floor((sector - 1) * 2), 0 in the first sector
volatileCount(sec) == IF sec = 1 THEN 0 ELSE (sec - 1) * 2

\* the asteroid list after initGame, in the order of its three loops
Seed(sec, titanCount) ==
  Repeat(volatileCount(sec), spawnAsteroid("VOLATILE", VolatileSeedY, 0))
    \o Repeat(titanCount, spawnAsteroid("TITAN", TitanSeedY, 0))
    \o Repeat(AMBIENT_ORE, spawnAsteroid("ORE", OreSeedY, 0))

\* update, 6b.: the arithmetic of (destroyed / initial) * 100 is that of binary64
\* numbers.  A quotient a / b of integers 0 < a <= b is kept as its 53 leading
\* bits (least bit first; the bit at 53 is the leading one) and the shift s
\* with a / b = 1.bits * 2^-s.
RECURSIVE Shift(_, _)
Shift(a, b) == IF a >= b THEN 0 ELSE 1 + Shift(2 * a, b)

RECURSIVE Pow2(_)
Pow2(k) == IF k = 0 THEN 1 ELSE 2 * Pow2(k - 1)

\* long division after the leading bit: the next k bits, each with the
\* remainder it leaves
RECURSIVE Rems(_, _, _)
Rems(r, b, k) ==
  IF k = 0 THEN << >>
  ELSE IF k = 1
    THEN IF 2 * r >= b THEN << [bit |-> 1, r |-> 2 * r - b] >>
         ELSE << [bit |-> 0, r |-> 2 * r] >>
  ELSE CHOOSE all \in
         { first \o Rems(first[Len(first)].r, b, k - k \div 2) :
             first \in { Rems(r, b, k \div 2) } } : TRUE

\* one more on a bit sequence (least bit first), with the carry out of it
Inc(bits) ==
  LET zeros == { i \in 1..Len(bits) : bits[i] = 0 }
  IN IF zeros = {} THEN [ bits |-> [i \in 1..Len(bits) |-> 0], carry |-> 1 ]
     ELSE LET z == CHOOSE i \in zeros : \A j \in zeros : i <= j
          IN [ bits |-> [i \in 1..Len(bits) |->
                           IF i < z THEN 0 ELSE IF i = z THEN 1 ELSE bits[i]],
               carry |-> 0 ]

\* a variant of RoundUp that would cut off what lies beyond the last bit
RoundUpNever(cmp, lastBit) == FALSE

\* binary64 rounds to nearest, ties to even: whether the kept bits go one up,
\* cmp telling whether what is dropped is under (-1), at (0) or over (1) a half
\* of the last place kept
RoundUp(cmp, lastBit) == cmp > 0 \/ (cmp = 0 /\ lastBit = 1)

\* update, 6b.: destroyed / levelInitialAsteroids.current
F64Div(a, b) ==
  LET s == Shift(a, b)
      steps == Rems(a * Pow2(s) - b, b, 52)
      bits == [i \in 1..53 |-> IF i = 53 THEN 1 ELSE steps[53 - i].bit]
      rem == steps[52].r
      cmp == IF 2 * rem > b THEN 1 ELSE IF 2 * rem = b THEN 0 ELSE -1
      inc == Inc(bits)
  IN IF RoundUp(cmp, bits[1])
       THEN IF inc.carry = 1
              THEN [ bits |-> [i \in 1..53 |-> IF i = 53 THEN 1 ELSE 0], s |-> s - 1 ]
              ELSE [ bits |-> inc.bits, s |-> s ]
     ELSE [ bits |-> bits, s |-> s ]

\* bits * k over the bits lo..hi, with c carried in: the bits that gives and
\* what is carried beyond them
RECURSIVE Times(_, _, _, _, _)
Times(bits, k, lo, hi, c) ==
  IF lo > hi THEN [ low |-> << >>, high |-> c ]
  ELSE IF lo = hi
    THEN [ low |-> << (bits[lo] * k + c) % 2 >>, high |-> (bits[lo] * k + c) \div 2 ]
  ELSE CHOOSE all \in
         { [ low |-> step.first.low \o step.rest.low, high |-> step.rest.high ] :
             step \in { [ first |-> first,
                          rest |-> Times(bits, k, Mid(lo, hi) + 1, hi, first.high) ] :
                          first \in { Times(bits, k, lo, Mid(lo, hi), c) } } } : TRUE

\* the number the n lowest bits make
RECURSIVE LowValue(_, _)
LowValue(bits, n) == IF n = 0 THEN 0 ELSE Pow2(n - 1) * bits[n] + LowValue(bits, n - 1)

\* the number of bits of n
RECURSIVE BitLength(_)
BitLength(n) == IF n = 0 THEN 0 ELSE 1 + BitLength(n \div 2)

\* Math.floor(q * k) for a whole k, the product rounded to 53 bits before the
\* floor is taken
FloorTimes(q, k) ==
  LET p == Times(q.bits, k, 1, 53, 0)
      over == BitLength(p.high)
      dropped == LowValue(p.low, over)
      half == Pow2(over - 1)
      cmp == IF dropped > half THEN 1 ELSE IF dropped = half THEN 0 ELSE -1
      kept == [i \in 1..(53 - over) |-> p.low[i + over]]
      inc == Inc(kept)
      up == RoundUp(cmp, kept[1])
      high == IF up THEN p.high + inc.carry ELSE p.high
      top == IF up THEN (IF inc.carry = 1 THEN 0 ELSE inc.bits[53 - over])
             ELSE kept[53 - over]
  IN IF q.s = 0 THEN 2 * high + top ELSE high \div Pow2(q.s - 1)

\* ------------------------------------------------------------ the camera's zoom
\* cameraRef.current.zoom is a binary64 number between 0.25 and 4; it is kept as
\* the ZoomBits bits (least bit first) of the whole number of 2^-56ths it is
ZoomBits == 58

\* the bits of a quotient 1.bits * 2^-s (s <= 4) in 2^-56ths
Fixed(q) ==
  [j \in 1..ZoomBits |->
     IF 1 <= j - 4 + q.s /\ j - 4 + q.s <= 53 THEN q.bits[j - 4 + q.s] ELSE 0]

ZoomStep == Fixed(F64Div(1, 10))
ZoomMin == Fixed(F64Div(2, 5))
ZoomMax == [j \in 1..ZoomBits |-> IF j = ZoomBits THEN 1 ELSE 0]
ZoomStart == Fixed(F64Div(4, 5))

\* x + y + c over the bits lo..hi: the bits that gives and the carry beyond
RECURSIVE AddBits(_, _, _, _, _)
AddBits(x, y, lo, hi, c) ==
  IF lo > hi THEN [ low |-> << >>, high |-> c ]
  ELSE IF lo = hi
    THEN [ low |-> << (x[lo] + y[lo] + c) % 2 >>, high |-> (x[lo] + y[lo] + c) \div 2 ]
  ELSE CHOOSE all \in
         { [ low |-> step.first.low \o step.rest.low, high |-> step.rest.high ] :
             step \in { [ first |-> first,
                          rest |-> AddBits(x, y, Mid(lo, hi) + 1, hi, first.high) ] :
                          first \in { AddBits(x, y, lo, Mid(lo, hi), c) } } } : TRUE

Plus(x, y) == AddBits(x, y, 1, ZoomBits, 0).low

\* x - y for x >= y
Minus(x, y) == AddBits(x, [j \in 1..ZoomBits |-> 1 - y[j]], 1, ZoomBits, 1).low

Less(x, y) ==
  LET differ == { j \in 1..ZoomBits : x[j] # y[j] }
  IN differ # {} /\ y[CHOOSE j \in differ : \A k \in differ : k <= j] = 1

\* an exact sum or difference rounded to the 53 bits a binary64 number keeps
Round53(x) ==
  LET ones == { j \in 1..ZoomBits : x[j] = 1 }
      top == CHOOSE j \in ones : \A k \in ones : k <= j
      drop == top - 53
      cmp == IF x[drop] = 0 THEN -1
             ELSE IF \E j \in 1..(drop - 1) : x[j] = 1 THEN 1 ELSE 0
      kept == [j \in 1..(ZoomBits - drop) |-> x[j + drop]]
      rounded == IF RoundUp(cmp, kept[1]) THEN Inc(kept).bits ELSE kept
  IN IF ones = {} \/ top <= 53 THEN x
     ELSE [j \in 1..ZoomBits |-> IF j <= drop THEN 0 ELSE rounded[j - drop]]

\* a variant of Clamp that would let the zoom fall under 0.4
ClampAbove(z) == IF Less(ZoomMax, z) THEN ZoomMax ELSE z

\* handleWheel: Math.min(Math.max(z, 0.4), 2.0)
Clamp(z) ==
  LET raised == IF Less(z, ZoomMin) THEN ZoomMin ELSE z
  IN IF Less(ZoomMax, raised) THEN ZoomMax ELSE raised

\* handleWheel: the zoom after an event whose deltaY has the sign given
newZoom(z, sign) ==
  IF sign = 0 THEN z
  ELSE CHOOSE clamped \in
         { Clamp(rounded) :
             rounded \in { Round53(sum) :
               sum \in { IF sign < 0 THEN Plus(z, ZoomStep) ELSE Minus(z, ZoomStep) } } } :
         TRUE

\* initGame: the ship after it
initShip(s) ==
  [s EXCEPT !.y = 0, !.vy = -SPAWN_SPEED, !.invulnerableTimer = SPAWN_INVULNERABLE]

\* the state of the component and of the ship after initGame()
initGame(c, sec, titanCount) ==
  [ ship      |-> initShip(c.ship),
    asteroids |-> Seed(sec, titanCount),
    mines     |-> << >>,
    particles |-> NoParticles,
    levelInitialAsteroids |-> volatileCount(sec) + titanCount,
    sectorOreCollected    |-> 0,
    clearedCalls          |-> 0,
    zoom                  |-> ZoomStart ]

\* what the handlers and the effect work on
Component ==
  [ ship      |-> ship,
    asteroids |-> asteroids,
    mines     |-> mines,
    particles |-> particles,
    levelInitialAsteroids |-> levelInitialAsteroids,
    sectorOreCollected    |-> sectorOreCollected,
    clearedCalls          |-> clearedCalls,
    zoom                  |-> cameraRef.zoom ]

\* a variant of FreshGame that would seed a new field after the menu only
FreshGameAfterMenu(gs, prev) == gs = "PLAYING" /\ prev = "MENU"

\* a variant of FreshGame that would seed a new field on every entry to PLAYING
FreshGameOnEveryEntry(gs, prev) == gs = "PLAYING" /\ prev # "PLAYING"

\* "Spawn / Reset Logic" effect: the condition of its first initGame
FreshGame(gs, prev) == gs = "PLAYING" /\ prev \in {"MENU", "GAME_OVER"}

\* "Spawn / Reset Logic" effect, run after a render with phase gs and sector sec
SpawnReset(gs, sec, c, titanCount) ==
  LET c1 == IF FreshGame(gs, prevGameState)
              THEN initGame(c, sec, titanCount) ELSE c
      c2 == IF gs = "PLAYING" /\ sec # prevSector
              THEN initGame(c1, sec, titanCount) ELSE c1
  IN [ c |-> c2,
       prevSector |-> IF gs = "PLAYING" /\ sec # prevSector THEN sec ELSE prevSector ]

\* the render that follows a callback: the phase and the sector are committed and
\* the effect runs on what the callback left
Commit(gs, sec, c, titanCount) ==
  LET e == SpawnReset(gs, sec, c, titanCount) IN
  /\ gameState' = gs
  /\ sector' = sec
  /\ ship' = e.c.ship
  /\ asteroids' = e.c.asteroids
  /\ mines' = e.c.mines
  /\ particles' = e.c.particles
  /\ levelInitialAsteroids' = e.c.levelInitialAsteroids
  /\ sectorOreCollected' = e.c.sectorOreCollected
  /\ clearedCalls' = e.c.clearedCalls
  /\ cameraRef' = [ zoom |-> e.c.zoom ]
  /\ prevGameState' = gs
  /\ prevSector' = e.prevSector

\* the log of a frame's laser: whether the primary button was down, the side
\* aimed at, the asteroid list the laser found and the same list with the hp the
\* laser left
NoLaser == [ on |-> FALSE, aim |-> 0, before |-> << >>, after |-> << >> ]

\* ------------------------------------------------------------ audio loops
\* AudioController as constructed: no context, the three loops off
AudioController ==
  [ ctx |-> FALSE, isThrusting |-> FALSE, isFiring |-> FALSE, isTractoring |-> FALSE ]

\* AudioController.init: the context and the master gain are created once
init(a) == [a EXCEPT !.ctx = TRUE]

\* setThrust / setLaser / setTractor, the first branch: active && !flag
StartsLoop(active, flag) == active /\ ~flag

\* a variant of StopsLoop that would fade and stop on every off request
StopsLoopAlways(active, flag) == ~active

\* setThrust / setLaser / setTractor, the second branch: !active && flag
StopsLoop(active, flag) == ~active /\ flag

\* one call of a loop's setter on flag f: the controller it leaves, and what it
\* did ("start": nodes built and started, "stop": fade and a stop scheduled by
\* setTimeout, "": nothing)
setLoop(a, f, active) ==
  IF ~a.ctx THEN [ audio |-> a, did |-> "" ]
  ELSE IF StartsLoop(active, a[f])
         THEN [ audio |-> [a EXCEPT ![f] = TRUE], did |-> "start" ]
  ELSE IF StopsLoop(active, a[f])
         THEN [ audio |-> [a EXCEPT ![f] = FALSE], did |-> "stop" ]
  ELSE [ audio |-> a, did |-> "" ]

setThrust(a, active) == setLoop(a, "isThrusting", active)
setLaser(a, active) == setLoop(a, "isFiring", active)
setTractor(a, active) == setLoop(a, "isTractoring", active)

\* the three setters as update calls them in one frame, in its order, with the
\* log of what was asked of each loop and what each call did
Loops(a, thrust, laser, tractor) ==
  LET t == setThrust(a, thrust)
      l == setLaser(t.audio, laser)
      r == setTractor(l.audio, tractor)
  IN [ audio |-> r.audio,
       log |-> [ thrust |-> [ asked |-> IF thrust THEN "on" ELSE "off", did |-> t.did ],
                 laser |-> [ asked |-> IF laser THEN "on" ELSE "off", did |-> l.did ],
                 tractor |-> [ asked |-> IF tractor THEN "on" ELSE "off", did |-> r.did ] ] ]

NoLoops ==
  [ thrust |-> [ asked |-> "", did |-> "" ], laser |-> [ asked |-> "", did |-> "" ],
    tractor |-> [ asked |-> "", did |-> "" ] ]

\* history: calm, the frames counted since the last frame that hurt the ship,
\* and gap, in the log of a frame, how many frames after that frame it came;
\* both are counted up to Calm
Calm == 31

\* the log of a callback that is no frame, calm frames after the ship was hurt
LogSince(event, calm) ==
  [ event |-> event, detonated |-> << >>, blasts |-> << >>, requests |-> << >>,
    breaks |-> << >>, purged |-> << >>, pickups |-> 0, hits |-> << >>,
    collided |-> [ before |-> << >>, seen |-> << >> ],
    laser |-> NoLaser,
    shop |-> [ kind |-> "", synced |-> FALSE ], loops |-> NoLoops, cue |-> "",
    calm |-> calm, gap |-> 0 ]

Log(event) == LogSince(event, tickLog.calm)

Init ==
  /\ gameState = "MENU"
  /\ sector = 1
  /\ sectorStats = [percent |-> 0, ore |-> 0]
  /\ ship = [ y |-> 0, vy |-> 0, hull |-> 100, maxHull |-> 100, shield |-> 0,
              maxShield |-> 0, cargo |-> 0, maxCargo |-> 20,
              credits |-> STARTING_CREDITS, ammo |-> STARTING_AMMO,
              invulnerableTimer |-> 0 ]
  /\ upgrades = InitialUpgrades
  /\ asteroids = << >>
  /\ mines = << >>
  /\ particles = NoParticles
  /\ prevGameState = "MENU"
  /\ prevSector = 1
  /\ levelInitialAsteroids = 0
  /\ sectorOreCollected = 0
  /\ cameraRef = [ zoom |-> ZoomStart ]
  /\ audio = AudioController
  /\ clearedCalls = 0
  /\ tickLog = LogSince("none", Calm)

\* a variant of Revived that would leave the ship as the last game left it
RevivedNot(s) == s

\* handleStartGame: "Revive ship immediately"
Revived(s) == [s EXCEPT !.hull = s.maxHull, !.shield = s.maxShield]

\* handleStartGame (the overlay shows its button in MENU and GAME_OVER)
handleStartGame ==
  /\ gameState \in {"MENU", "GAME_OVER"}
  /\ LET s1 == [ship EXCEPT !.credits = STARTING_CREDITS, !.ammo = STARTING_AMMO]
         s2 == recalcStats(s1, InitialUpgrades)
         s3 == Revived(s2)
     IN /\ upgrades' = InitialUpgrades
        /\ \E tc \in TitanCounts(1) :
             Commit("PLAYING", 1, [Component EXCEPT !.ship = s3], tc)
  /\ audio' = init(audio)
  /\ tickLog' = Log("start")
  /\ UNCHANGED sectorStats

\* ------------------------------------------------------------ update
\* the inputs of one frame: v, the velocity the control step leaves the ship with;
\* step, whether the ship crosses into the next cell; laser, 0 when the primary
\* button is up, else the side the pointer aims at (the laser changes nothing
\* when no CHUNK is in the field, and the button is then taken to be up);
\* thrust, whether the forward key (W) is down: the ship heads away from the
\* station, so it flies out on W and comes back on the reverse thruster (S),
\* which has no loop
ShipVels == {-SPAWN_SPEED, 0, SPAWN_SPEED}
FrameInputs ==
  { in \in [ v : ShipVels, step : BOOLEAN, laser : {-1, 0, 1}, thrust : BOOLEAN ] :
      /\ in.step => in.v # 0
      /\ in.thrust => in.v < 0
      /\ in.laser # 0 => \E i \in 1..Len(asteroids) : asteroids[i].tier = "CHUNK" }

\* the direction from a to b on the axis (Math.atan2 of the difference); of two
\* bodies in one cell, the one acted on is taken to be on the side given
Dir(from, to, side) == IF to = from THEN side ELSE Sgn(to - from)

\* in its cell the ship is on the station's side of a mine or an asteroid, and
\* an asteroid on the far side of a mine
ShipSide == 1
AsteroidSide == -1

\* update, 1. Ship Controls .. Apply Friction: ship.x += ship.vx
Controls(s, in) ==
  [s EXCEPT !.vy = in.v,
            !.y = IF in.step THEN s.y + Sgn(in.v) * Cell ELSE s.y]

InField(y) == -(MaxCell * Cell) <= y /\ y <= 0

\* a variant of Mineable that would let the laser cut a VOLATILE
MineableOrVolatile(ast) == ast.tier \notin {"TITAN", "ORE"}

\* update, 3. Mining Laser Logic: the tiers the laser passes over (348)
Mineable(ast) == ast.tier \notin {"TITAN", "VOLATILE", "ORE"}

\* update, 3. Mining Laser Logic: the forEach that picks closestAst, from index i on
RECURSIVE closestAst(_, _, _, _, _, _)
closestAst(s, asts, aim, i, best, closestDist) ==
  IF i > Len(asts) THEN [ast |-> best, dist |-> closestDist]
  ELSE LET ast == asts[i]
           dToAst == distance(s.y, ast.y)
           hit == /\ Mineable(ast)
                  /\ dToAst < LASER_RANGE + Radius(ast.tier)
                  /\ ast.y # s.y /\ Sgn(ast.y - s.y) = aim
                  /\ dToAst < closestDist
       IN IF hit THEN closestAst(s, asts, aim, i + 1, i, dToAst)
                 ELSE closestAst(s, asts, aim, i + 1, best, closestDist)

\* a variant of Crossed that would not ask whether the asteroid was alive
CrossedUnguarded(old, new) == new.hp2 <= 0

\* update, 3. and 5.: const wasAlive = ast.hp > 0; ... if (wasAlive && ast.hp <= 0)
Crossed(old, new) == old.hp2 > 0 /\ new.hp2 <= 0

\* a variant of Alive that would keep the collected ORE in the list
AliveOrTaken(asts) == SelectSeq(asts, LAMBDA a : a.hp2 > 0 \/ a.picks > 0)

Alive(asts) == SelectSeq(asts, LAMBDA a : a.hp2 > 0)

\* what filter(a => a.hp > 0) drops
Purged(asts) == SelectSeq(asts, LAMBDA a : ~(a.hp2 > 0))

\* update, 3. Mining Laser Logic: the asteroids and particles it leaves
Laser(s, asts, parts, u, aim) ==
  IF aim = 0
    THEN [ asteroids |-> asts, particles |-> parts, breaks |-> << >>,
           purged |-> << >>, log |-> NoLaser ]
  ELSE LET c == closestAst(s, asts, aim, 1, 0, LASER_RANGE)
           laserPower2 == 2 + u.laserLevel
       IN IF c.ast = 0
            THEN [ asteroids |-> Alive(asts), particles |-> parts,
                   breaks |-> << >>, purged |-> Purged(asts),
                   log |-> [ on |-> TRUE, aim |-> aim, before |-> asts, after |-> asts ] ]
          ELSE LET old == asts[c.ast]
                   new == [old EXCEPT !.hp2 = @ - laserPower2]
                   broke == Crossed(old, new)
                   after == [asts EXCEPT ![c.ast] = new]
                   left == IF broke THEN Broken(after, c.ast, 0) ELSE after
               IN [ asteroids |-> Alive(left),
                    particles |-> IF broke THEN breakDust(spawnParticles(parts, 2, 10))
                                  ELSE spawnParticles(parts, 2, 10),
                    breaks |-> IF broke THEN << BreakRecord(new, 0) >> ELSE << >>,
                    purged |-> Purged(left),
                    log |-> [ on |-> TRUE, aim |-> aim, before |-> asts, after |-> after ] ]

\* update, 5. Mines: the blast on one asteroid in reach (impulse, then damage)
BlastForce(d) == (MINE_BLAST_FORCE * (MINE_BLAST_RADIUS - d)) \div MINE_BLAST_RADIUS

\* a variant of BlastOne that would damage an ORE as it damages a CHUNK
BlastOneOreToo(mine, ast, side) ==
  LET d == distance(mine.y, ast.y)
      pushed == [ast EXCEPT !.vy = @ + Dir(mine.y, ast.y, side) * BlastForce(d)]
  IN IF ast.tier \in {"TITAN", "VOLATILE"} THEN [pushed EXCEPT !.hp2 = 0]
     ELSE [pushed EXCEPT !.hp2 = @ - 2 * 100]

BlastOne(mine, ast, side) ==
  LET d == distance(mine.y, ast.y)
      pushed == [ast EXCEPT !.vy = @ + Dir(mine.y, ast.y, side) * BlastForce(d)]
  IN IF ast.tier \in {"TITAN", "VOLATILE"} THEN [pushed EXCEPT !.hp2 = 0]
     ELSE IF ast.tier # "ORE" THEN [pushed EXCEPT !.hp2 = @ - 2 * 100]
     ELSE pushed

\* a variant of InBlast that would take in the edge of the radius
InBlastOrOnEdge(mine, ast) == distance(mine.y, ast.y) <= MINE_BLAST_RADIUS

\* update, 5. Mines: if (d < MINE_BLAST_RADIUS), for an asteroid
InBlast(mine, ast) == distance(mine.y, ast.y) < MINE_BLAST_RADIUS

\* update, 5. Mines: the body of asteroidsRef.current.forEach of a detonation,
\* for the asteroid at index i (seen and applied are history: the indexes the
\* callback has been called with, and those within the radius)
BlastStep(mine, side, i, acc) ==
  LET ast == acc.asteroids[i]
  IN IF ~InBlast(mine, ast) THEN [acc EXCEPT !.seen = Append(@, i)]
     ELSE LET new == BlastOne(mine, ast, side)
              broke == Crossed(ast, new)
              impact == Dir(mine.y, ast.y, side) * BlastForce(distance(mine.y, ast.y))
              after == [acc.asteroids EXCEPT ![i] = new]
          IN [ asteroids |-> IF broke THEN Broken(after, i, impact) ELSE after,
               particles |-> IF broke THEN breakDust(acc.particles) ELSE acc.particles,
               applied   |-> Append(acc.applied, i),
               seen      |-> Append(acc.seen, i),
               breaks    |-> IF broke THEN Append(acc.breaks, BreakRecord(new, impact))
                             ELSE acc.breaks ]

\* update, 5. Mines: asteroidsRef.current.forEach of a detonation, over the
\* indexes lo..hi in their order (the first half, then, on what that leaves, the
\* second); the forEach ends at the length the list had when it began,
\* breakAsteroid pushes behind it
RECURSIVE BlastPass(_, _, _, _, _)
BlastPass(mine, side, lo, hi, acc) ==
  IF lo > hi THEN acc
  ELSE IF lo = hi THEN BlastStep(mine, side, lo, acc)
  ELSE CHOOSE done \in { BlastPass(mine, side, Mid(lo, hi) + 1, hi, first) :
                           first \in { BlastPass(mine, side, lo, Mid(lo, hi), acc) } } : TRUE

\* a variant of Vulnerable that would let the ship be hurt at any time
VulnerableAlways(s) == TRUE

\* update, 5. and 6.: if (ship.invulnerableTimer <= 0), the guard of the damage
\* of a blast and of a collision
Vulnerable(s) == s.invulnerableTimer <= 0

\* update, 5. Mines: the blast on the ship
ShipBlastForce(d) == (3 * MINE_BLAST_FORCE * (MINE_BLAST_RADIUS - d)) \div (2 * MINE_BLAST_RADIUS)

\* a variant of BlastDamage that would not fall off with the distance
BlastDamageFlat(d) == BLAST_HULL_DAMAGE

\* update, 5. Mines: 50 * (1 - dShip/MINE_BLAST_RADIUS)
BlastDamage(d) == (BLAST_HULL_DAMAGE * (MINE_BLAST_RADIUS - d)) \div MINE_BLAST_RADIUS

\* a variant of BlastShip that would take of the hull without setting the timer
BlastShipNoGrace(mine, s, side) ==
  LET dShip == distance(mine.y, s.y)
      pushed == [s EXCEPT !.vy = @ + Dir(mine.y, s.y, side) * ShipBlastForce(dShip)]
  IN IF ~(dShip < MINE_BLAST_RADIUS) THEN s
     ELSE IF ~Vulnerable(pushed) THEN pushed
     ELSE IF pushed.shield > 0
       THEN [pushed EXCEPT !.shield = 0, !.invulnerableTimer = HIT_INVULNERABLE]
       ELSE [pushed EXCEPT !.hull = @ - BlastDamage(dShip)]

\* update, 5. Mines: the blast on the ship
BlastShip(mine, s, side) ==
  LET dShip == distance(mine.y, s.y)
      pushed == [s EXCEPT !.vy = @ + Dir(mine.y, s.y, side) * ShipBlastForce(dShip)]
  IN IF ~(dShip < MINE_BLAST_RADIUS) THEN s
     ELSE IF ~Vulnerable(pushed) THEN pushed
     ELSE IF pushed.shield > 0
       THEN [pushed EXCEPT !.shield = 0, !.invulnerableTimer = HIT_INVULNERABLE]
       ELSE [pushed EXCEPT !.hull = @ - BlastDamage(dShip),
                           !.invulnerableTimer = BLAST_INVULNERABLE]

\* a variant of PuckerCue that would ask for the cue all through the window
PuckerCueThroughWindow(timer) == timer <= MINE_PUCKER_DURATION

\* update, 5. Mines: if (mine.timer === MINE_PUCKER_DURATION) audio.playMinePucker()
PuckerCue(timer) == timer = MINE_PUCKER_DURATION

\* update, 5. Mines: the condition of the pucker branch
Puckers(timer) == timer > 0 /\ timer < MINE_PUCKER_DURATION

\* a variant of Detonates that would fire a tick late
DetonatesLate(timer) == timer < 0

\* update, 5. Mines: the condition of the detonation branch
Detonates(timer) == timer <= 0

\* update, 5. Mines: the countdown of one mine (age and cues are history: the
\* frames since the drop, the playMinePucker requests)
Countdown(mine) ==
  LET t == mine.timer - 1
  IN [mine EXCEPT !.timer = t,
                  !.age = @ + 1,
                  !.cues = IF PuckerCue(t) THEN @ + 1 ELSE @,
                  !.state = IF Puckers(t) THEN "PUCKER"
                            ELSE IF Detonates(t) THEN "DETONATING" ELSE @]

\* update, 5. Mines: minesRef.current.forEach, from mine i on
RECURSIVE MinesPass(_, _, _)
MinesPass(i, side, acc) ==
  IF i > Len(acc.mines) THEN acc
  ELSE LET mine == Countdown(acc.mines[i])
           stepped == [acc EXCEPT !.mines[i] = mine]
       IN IF Puckers(mine.timer)
            THEN MinesPass(i + 1, side,
                   [stepped EXCEPT !.particles = spawnParticles(@, 3, 30)])
          ELSE IF Detonates(mine.timer)
            THEN LET boom == spawnParticles(spawnParticles(spawnParticles(
                                acc.particles, 60, 45), 40, 40), 20, 25)
                     pass == BlastPass(mine, AsteroidSide, 1, Len(acc.asteroids),
                               [ asteroids |-> acc.asteroids, particles |-> boom,
                                 applied |-> << >>, seen |-> << >>,
                                 breaks |-> acc.breaks ])
                 IN MinesPass(i + 1, side,
                      [stepped EXCEPT
                         !.asteroids = pass.asteroids,
                         !.particles = pass.particles,
                         !.breaks = pass.breaks,
                         !.ship = BlastShip(mine, acc.ship, side),
                         !.detonated = Append(@, mine),
                         !.blasts = Append(@, [ mine |-> mine, before |-> acc.asteroids,
                                                after |-> pass.asteroids,
                                                applied |-> pass.applied,
                                                seen |-> pass.seen,
                                                ship |-> acc.ship,
                                                struck |-> BlastShip(mine, acc.ship, side) ])])
          ELSE MinesPass(i + 1, side, stepped)

\* a variant of CollisionDamage that would take a CHUNK's toll for every tier
CollisionDamageFlat(tier) == 20

\* update, 6. Asteroid Physics & Collision: the damage of a non-ORE collision
CollisionDamage(tier) ==
  IF tier = "VOLATILE" THEN 150 ELSE IF tier = "TITAN" THEN 100 ELSE 20

\* a variant of AbsorbHit that would take a hit's damage off the shield
AbsorbHitInPart(s) == [s EXCEPT !.shield = @ - CollisionDamage("VOLATILE")]

\* update, 6.: if (ship.shield > 0) ship.shield = 0
AbsorbHit(s) == [s EXCEPT !.shield = 0]

\* a variant of HasRoom that would take one more ORE into a full hold
HasRoomWhenFull(s) == s.cargo <= s.maxCargo

\* update, 6.: if (ship.cargo < ship.maxCargo)
HasRoom(s) == s.cargo < s.maxCargo

\* the log of one asteroid other than ORE found overlapping the ship: its tier,
\* the relative speed, and the ship's hull, shield and timer before and after
Vitals(s) == [ hull |-> s.hull, shield |-> s.shield, timer |-> s.invulnerableTimer ]

Overlap(ast, vRel, s, after) ==
  [ tier |-> ast.tier, vRel |-> vRel, before |-> Vitals(s), after |-> Vitals(after) ]

\* update, 6.: checkCollision(ship, ast) and what follows, for one asteroid
\* (acc: ship, sectorOreCollected, the playPickup calls so far, the overlaps
\* logged so far, the asteroid as it is left)
CollideOne(acc, ast, side) ==
  LET s == acc.ship
  IN IF ~checkCollision(s.y, SHIP_RADIUS, ast.y, Radius(ast.tier))
       THEN [acc EXCEPT !.ast = ast]
     ELSE IF ast.tier = "ORE"
       THEN IF HasRoom(s)
              THEN [ ship |-> [s EXCEPT !.cargo = @ + 1],
                     ore  |-> acc.ore + 1,
                     pickups |-> acc.pickups + 1,
                     hits |-> acc.hits,
                     ast  |-> [ast EXCEPT !.hp2 = 0, !.picks = @ + 1] ]
              ELSE [acc EXCEPT !.ast = ast]
     ELSE LET vRel == Abs(s.vy - ast.vy)
              hit == IF s.shield > 0
                       THEN AbsorbHit(s)
                       ELSE [s EXCEPT !.hull = @ - CollisionDamage(ast.tier)]
              struck == [hit EXCEPT !.invulnerableTimer = HIT_INVULNERABLE]
          IN IF ~Vulnerable(s) \/ ~(vRel > 2 \/ ast.tier = "VOLATILE")
               THEN [acc EXCEPT !.ast = ast,
                                !.hits = Append(@, Overlap(ast, vRel, s, s))]
             ELSE [ ship |-> [struck EXCEPT !.vy = @ + Dir(ast.y, s.y, side) * 8],
                    ore  |-> acc.ore,
                    pickups |-> acc.pickups,
                    hits |-> Append(acc.hits, Overlap(ast, vRel, s, struck)),
                    ast  |-> ast ]

\* update, 6.: the body of asteroidsRef.current.forEach, for the asteroid at index i
AsteroidStep(i, side, acc) ==
  LET ast == acc.asteroids[i]
      damped == [ast EXCEPT !.vy = TruncDiv(@ * 99, 100)]
      big == IF ast.tier \in {"TITAN", "VOLATILE"} THEN 1 ELSE 0
      one == CollideOne([ ship |-> acc.ship, ore |-> acc.ore,
                          pickups |-> acc.pickups, hits |-> acc.hits, ast |-> damped ],
                        damped, side)
  IN [ ship |-> one.ship,
       ore  |-> one.ore,
       pickups |-> one.pickups,
       hits |-> one.hits,
       seen |-> Append(acc.seen, i),
       asteroids |-> [acc.asteroids EXCEPT ![i] = one.ast],
       titansLeft |-> acc.titansLeft + big ]

\* update, 6.: asteroidsRef.current.forEach, over the indexes lo..hi in their
\* order (the first half, then, on what that leaves, the second)
RECURSIVE AsteroidsPass(_, _, _, _)
AsteroidsPass(lo, hi, side, acc) ==
  IF lo > hi THEN acc
  ELSE IF lo = hi THEN AsteroidStep(lo, side, acc)
  ELSE CHOOSE done \in { AsteroidsPass(Mid(lo, hi) + 1, hi, side, first) :
                           first \in { AsteroidsPass(lo, Mid(lo, hi), side, acc) } } : TRUE

\* update, 6b. Sector Completion Check: the condition of the outer if
SectorDone(initial, titansLeft) == initial > 0 /\ titansLeft * 10 <= initial

\* update, 6b.: Math.floor(q * 100)
FloorTimes100(q) == FloorTimes(q, 100)

\* update, 6b.: percent = Math.floor((destroyed / initial) * 100)
Percent(initial, titansLeft) ==
  LET destroyed == initial - titansLeft
  IN IF destroyed = 0 THEN 0 ELSE FloorTimes100(F64Div(destroyed, initial))

\* a variant of CanDock that would dock the ship at any speed
CanDockAtSpeed(s) == distance(0, s.y) < STATION_RADIUS + SHIP_RADIUS

\* update, 7. Station Docking: the condition
CanDock(s) == distance(0, s.y) < STATION_RADIUS + SHIP_RADIUS /\ Abs(s.vy) < 1

\* a variant of IsDead that would let a hull of exactly zero play on
IsDeadBelowZero(s) == s.hull < 0

\* update, 8.: if (ship.hull <= 0) setGameState(GameState.GAME_OVER)
IsDead(s) == s.hull <= 0

\* a variant of TimerTick that would count on below zero
TimerTickPastZero(t) == t - 1

\* update, 8.: if (ship.invulnerableTimer > 0) ship.invulnerableTimer--
TimerTick(t) == IF t > 0 THEN t - 1 ELSE t

\* the phase that several setGameState calls of one callback leave: the last
Last(seq) == seq[Len(seq)]

\* history: whether the damage branch of a blast or of a collision ran, from
\* the ship's hull, shield and timer before it and after it
Hurt(before, after) ==
  \/ after.hull < before.hull
  \/ after.shield < before.shield
  \/ after.timer > before.timer

\* history: how many times the ship was hurt in a frame, by its blasts and its
\* collisions
Hurts(blasts, hits) ==
  Cardinality({ b \in 1..Len(blasts) : Hurt(Vitals(blasts[b].ship), Vitals(blasts[b].struck)) })
    + Cardinality({ h \in 1..Len(hits) : Hurt(hits[h].before, hits[h].after) })

\* update, one frame in PLAYING
update(in) ==
  /\ gameState = "PLAYING"
  /\ \E s1 \in {Controls(ship, in)} :
     /\ InField(s1.y)
     /\ \E las \in {Laser(s1, asteroids, particles, upgrades, in.laser)} :
        \E mp \in {MinesPass(1, ShipSide,
                 [ mines |-> mines, asteroids |-> las.asteroids, ship |-> s1,
                   particles |-> las.particles, detonated |-> << >>, blasts |-> << >>,
                   breaks |-> las.breaks ])} :
        \E ap \in {AsteroidsPass(1, Len(Alive(mp.asteroids)), ShipSide,
                 [ ship |-> mp.ship, ore |-> sectorOreCollected, pickups |-> 0,
                   hits |-> << >>, seen |-> << >>,
                   asteroids |-> Alive(mp.asteroids), titansLeft |-> 0 ])} :
        \E cleared \in {/\ SectorDone(levelInitialAsteroids, ap.titansLeft)
                        /\ sector = prevSector /\ gameState = "PLAYING"} :
        \E s2 \in {[ap.ship EXCEPT !.invulnerableTimer = TimerTick(@)]} :
        \* the secondary button (the tractor beam) is never pressed
        \E snd \in {Loops(audio, in.thrust, in.laser # 0, FALSE)} :
        \E requests \in {(IF cleared THEN << "SECTOR_CLEARED" >> ELSE << >>)
                       \o (IF CanDock(ap.ship) THEN << "DOCKED" >> ELSE << >>)
                       \o (IF IsDead(s2) THEN << "GAME_OVER" >> ELSE << >>)} :
        /\ sectorStats' = IF cleared
                            THEN [ percent |-> Percent(levelInitialAsteroids, ap.titansLeft),
                                   ore |-> ap.ore ]
                            ELSE sectorStats
        /\ tickLog' = [ event |-> "frame", detonated |-> mp.detonated,
                        blasts |-> mp.blasts, requests |-> requests,
                        breaks |-> mp.breaks,
                        purged |-> las.purged \o Purged(mp.asteroids),
                        pickups |-> ap.pickups,
                        hits |-> ap.hits,
                        collided |-> [ before |-> Alive(mp.asteroids),
                                       seen |-> ap.seen ],
                        laser |-> las.log,
                        shop |-> [ kind |-> "", synced |-> FALSE ],
                        loops |-> snd.log, cue |-> "",
                        calm |-> IF Hurts(mp.blasts, ap.hits) > 0 THEN 0
                                 ELSE Min(tickLog.calm + 1, Calm),
                        gap |-> Min(tickLog.calm + 1, Calm) ]
        /\ audio' = snd.audio
        /\ Commit(IF requests = << >> THEN gameState ELSE Last(requests), sector,
                  [ ship |-> s2,
                    asteroids |-> ap.asteroids,
                    mines |-> SelectSeq(mp.mines, LAMBDA m : m.state # "DETONATING"),
                    particles |-> StepParticles(mp.particles),
                    levelInitialAsteroids |-> levelInitialAsteroids,
                    sectorOreCollected |-> ap.ore,
                    clearedCalls |-> IF cleared THEN Min(clearedCalls + 1, MaxCalls)
                                     ELSE clearedCalls,
                    zoom |-> cameraRef.zoom ],
                  BASE_TITANS)
  /\ UNCHANGED upgrades

\* the player of the model: while a mine counts down and is neither freshly
\* dropped nor about to blow, the controls are left alone
Window == 8
Waiting ==
  /\ mines # << >>
  /\ mines[1].timer > Window
  /\ mines[1].timer < MINE_TIMER - Window

Frame ==
  \E in \in FrameInputs :
    /\ in.laser = 0
    /\ ~in.thrust
    /\ Waiting => in.v = 0
    /\ Controls(ship, in).y >= -(Reach * Cell)
    /\ update(in)

\* a variant of idleFrame that would go on counting down and fading outside PLAYING
idleFrameRunning ==
  /\ gameState # "PLAYING"
  /\ \E snd \in {Loops(audio, FALSE, FALSE, FALSE)} :
       /\ audio' = snd.audio
       /\ tickLog' = [tickLog EXCEPT !.loops = snd.log]
  /\ ship' = [ship EXCEPT !.invulnerableTimer = TimerTick(@)]
  /\ mines' = [i \in 1..Len(mines) |-> Countdown(mines[i])]
  /\ particles' = StepParticles(particles)
  /\ UNCHANGED << gameState, sector, sectorStats, upgrades, asteroids,
                  prevGameState, prevSector, levelInitialAsteroids,
                  sectorOreCollected, cameraRef, clearedCalls >>

\* update, a frame outside PLAYING: the three loops are requested off, nothing
\* else; the log keeps the last callback and notes what the setters did
idleFrame ==
  /\ gameState # "PLAYING"
  /\ \E snd \in {Loops(audio, FALSE, FALSE, FALSE)} :
       /\ audio' = snd.audio
       /\ tickLog' = [tickLog EXCEPT !.loops = snd.log]
  /\ UNCHANGED << gameState, sector, sectorStats, ship, upgrades, asteroids, mines,
                  particles, prevGameState, prevSector, levelInitialAsteroids,
                  sectorOreCollected, cameraRef, clearedCalls >>

\* a variant of HasCharge that would drop a mine from an empty rack
HasChargeAlways(s) == TRUE

\* handleKeyDown: if (shipRef.current.ammo > 0)
HasCharge(s) == s.ammo > 0

\* handleKeyDown, Space: in PLAYING a mine is dropped and playMineArmed asked
\* for, or with no charge left playUI('error'); in any other phase nothing
handleKeyDown ==
  /\ Len(mines) < MaxMines
  /\ IF gameState = "PLAYING" /\ HasCharge(ship)
       THEN /\ ship' = [ship EXCEPT !.ammo = @ - 1]
            /\ mines' = Append(mines, [ y |-> ship.y, timer |-> MINE_TIMER,
                                        state |-> "ARMED", age |-> 0, cues |-> 0 ])
            /\ tickLog' = [Log("key") EXCEPT !.cue = "armed"]
       ELSE /\ UNCHANGED << ship, mines >>
            /\ tickLog' = [Log("key") EXCEPT
                             !.cue = IF gameState = "PLAYING" THEN "error" ELSE ""]
  /\ UNCHANGED << cameraRef, audio, gameState, sector, sectorStats, upgrades, asteroids, particles,
                  prevGameState, prevSector, levelInitialAsteroids,
                  sectorOreCollected, clearedCalls >>

\* the player of the model drops a mine only when the ship is not invulnerable
\* and no other mine is counting down, at most MaxDrops of the charges a game
\* starts with, and none in the last sector modelled, which is entered only to
\* see the field seeded again
DropKey ==
  /\ gameState = "PLAYING"
  /\ sector < MaxSector
  /\ mines = << >>
  /\ ship.invulnerableTimer = 0
  /\ ship.ammo > STARTING_AMMO - MaxDrops
  /\ handleKeyDown

\* ------------------------------------------------------------ App: the shop
\* a shop handler called for kind (sell, ammo, repair or the upgrade's type)
\* that leaves the ship s and the upgrades u; done: it took its branch, the one
\* that ends in syncUI()
Shop(kind, done, s, u) ==
  /\ gameState = "DOCKED"
  /\ ship' = s
  /\ upgrades' = u
  /\ tickLog' = [Log("shop") EXCEPT !.shop = [ kind |-> kind, synced |-> done ]]
  /\ UNCHANGED << cameraRef, audio, gameState, sector, sectorStats, asteroids, mines, particles,
                  prevGameState, prevSector, levelInitialAsteroids,
                  sectorOreCollected, clearedCalls >>

\* handleSellOre
handleSellOre ==
  /\ gameState = "DOCKED"
  /\ Shop("sell", ship.cargo > 0,
          IF ship.cargo > 0
            THEN [ship EXCEPT !.credits = @ + ship.cargo * ORE_VALUE, !.cargo = 0]
            ELSE ship,
          upgrades)

\* a variant of CanPay that would sell on credit
CanPayOnCredit(s, cost) == s.credits >= 0

\* the shop handlers: if (s.credits >= cost)
CanPay(s, cost) == s.credits >= cost

\* handleBuyAmmo
handleBuyAmmo ==
  /\ ship.ammo < MaxAmmo
  /\ Shop("ammo", CanPay(ship, AMMO_COST),
          IF CanPay(ship, AMMO_COST)
            THEN [ship EXCEPT !.credits = @ - AMMO_COST, !.ammo = @ + 1]
            ELSE ship,
          upgrades)

\* handleRepair
handleRepair ==
  /\ gameState = "DOCKED"
  /\ LET cost == (ship.maxHull - ship.hull) * 2
         ok == CanPay(ship, cost) /\ ship.hull < ship.maxHull
     IN Shop("repair", ok,
             IF ok THEN [ship EXCEPT !.credits = @ - cost, !.hull = ship.maxHull]
             ELSE ship,
             upgrades)

\* Math.floor(UPGRADE_COST_BASE * Math.pow(UPGRADE_COST_MULTIPLIER, level - 1)),
\* the multiplier being 3/2
RECURSIVE Pow(_, _)
Pow(b, e) == IF e = 0 THEN 1 ELSE b * Pow(b, e - 1)

\* (from level 1 on the power and the product are whole multiples of a power
\* of 1/2 and exact in binary64; below, the power is the binary64 nearest to
\* (2/3)^(1 - level) and the product is rounded again)
UpgradeCost(level) ==
  IF level >= 1 THEN (UPGRADE_COST_BASE * Pow(3, level - 1)) \div Pow(2, level - 1)
  ELSE FloorTimes(F64Div(Pow(2, 1 - level), Pow(3, 1 - level)), UPGRADE_COST_BASE)

UpgradeTypes ==
  {"engineLevel", "handlingLevel", "hullLevel", "cargoLevel", "laserLevel", "shieldLevel"}

\* handleUpgrade(type)
handleUpgrade(type) ==
  /\ upgrades[type] < MaxLevel
  /\ LET cost == UpgradeCost(upgrades[type])
         u == [upgrades EXCEPT ![type] = @ + 1]
         s1 == recalcStats([ship EXCEPT !.credits = @ - cost], u)
         s2 == IF type = "hullLevel" THEN [s1 EXCEPT !.hull = s1.maxHull] ELSE s1
     IN IF CanPay(ship, cost) THEN Shop(type, TRUE, s2, u)
        ELSE Shop(type, FALSE, ship, upgrades)

\* handleUndock (the heading is -PI/2: sin = -1, cos = 0)
handleUndock ==
  /\ gameState = "DOCKED"
  /\ Commit("PLAYING", sector,
            [Component EXCEPT !.ship = [ship EXCEPT !.vy = -LAUNCH_SPEED]],
            BASE_TITANS)
  /\ tickLog' = Log("undock")
  /\ UNCHANGED << sectorStats, upgrades, audio >>

\* handleNextSector, in a game that ends with the sector given
handleNextSectorUpTo(last) ==
  /\ gameState = "SECTOR_CLEARED"
  /\ sector < last
  /\ \E tc \in TitanCounts(sector + 1) :
       Commit("PLAYING", sector + 1, Component, tc)
  /\ tickLog' = Log("next")
  /\ UNCHANGED << sectorStats, upgrades, audio >>

handleNextSector == handleNextSectorUpTo(MaxSector)

Next ==
  \/ handleStartGame
  \/ Frame
  \/ idleFrame
  \/ DropKey
  \/ handleUndock
  \/ handleNextSector

Spec == Init /\ [][Next]_vars

\* ------------------------------------------------------------ a game with the shop
\* the player of this game keeps the laser off, flies a cell in every frame they
\* fly at all, and holds still while a mine of theirs counts down
ShopFrame ==
  \E in \in FrameInputs :
    /\ in.laser = 0
    /\ ~in.thrust
    /\ in.step <=> in.v # 0
    /\ mines # << >> => in.v = 0
    /\ Controls(ship, in).y >= -(Reach * Cell)
    /\ update(in)

ShopDropKey ==
  /\ gameState = "PLAYING"
  /\ ship.invulnerableTimer = 0
  /\ mines = << >>
  /\ handleKeyDown

ShopUpgradeTypes == {"shieldLevel"}

NextShop ==
  \/ handleStartGame
  \/ ShopFrame
  \/ idleFrame
  \/ ShopDropKey
  \/ handleSellOre
  \/ handleBuyAmmo
  \/ handleRepair
  \/ \E type \in ShopUpgradeTypes : handleUpgrade(type)
  \/ handleUndock

SpecShop == Init /\ [][NextShop]_vars

\* ------------------------------------------------------------ a hauling game
\* One way of playing, move by move: fetch the ambient ore of the first sector,
\* sell it and buy the cargo upgrade, mine the titans from the next cell and hold
\* there; in the second sector drop a mine among the titans while still
\* invulnerable, fetch the ambient ore, wait out the blast two cells off, then
\* cut chunks from the next cell and collect their ore until the hold carries
\* more than a ship without upgrades can, and fly into the volatiles.
Has(tier) == \E i \in 1..Len(asteroids) : asteroids[i].tier = tier /\ asteroids[i].hp2 > 0

StartMaxCargo == recalcStats(ship, InitialUpgrades).maxCargo

HaulDropDue ==
  /\ mines = << >>
  /\ Has("TITAN")
  /\ \/ sector = 1 /\ upgrades.cargoLevel > 1 /\ ship.y = TitanSeedY + Cell
     \/ sector > 1 /\ ship.cargo = 0 /\ ship.y = TitanSeedY

HaulTarget ==
  IF sector = 1
    THEN IF upgrades.cargoLevel > 1 THEN TitanSeedY + Cell
         ELSE IF ship.cargo = 0 THEN OreSeedY
         ELSE -Cell
  ELSE IF Has("TITAN")
    THEN IF mines = << >> THEN TitanSeedY
         ELSE IF ship.cargo = 0 THEN OreSeedY
         ELSE TitanSeedY + 2 * Cell
  ELSE IF ship.cargo > StartMaxCargo THEN VolatileSeedY
  ELSE IF Has("ORE") THEN TitanSeedY
  ELSE TitanSeedY + Cell

HaulInput ==
  [ v     |-> Sgn(HaulTarget - ship.y) * SPAWN_SPEED,
    step  |-> ship.y # HaulTarget,
    thrust |-> HaulTarget < ship.y,
    laser |-> IF /\ sector > 1 /\ ~Has("TITAN") /\ ~Has("ORE") /\ Has("CHUNK")
                 /\ ship.cargo <= StartMaxCargo /\ ship.y = HaulTarget
                THEN -1 ELSE 0 ]

HaulFrame ==
  /\ ~HaulDropDue
  /\ HaulInput \in FrameInputs
  /\ update(HaulInput)

HaulDropKey == gameState = "PLAYING" /\ HaulDropDue /\ handleKeyDown

HaulSell == ship.cargo > 0 /\ handleSellOre

HaulUpgrade == ship.cargo = 0 /\ handleUpgrade("cargoLevel")

HaulUndock == upgrades.cargoLevel > 1 /\ handleUndock

NextHaul ==
  \/ handleStartGame
  \/ HaulFrame
  \/ idleFrame
  \/ HaulDropKey
  \/ HaulSell
  \/ HaulUpgrade
  \/ HaulUndock
  \/ handleNextSector

SpecHaul == Init /\ [][NextHaul]_vars

\* ------------------------------------------------------------ a salvo game
\* Another way of playing, move by move: in every sector a mine among the titans,
\* dropped while the spawn still shields the ship, and a wait two cells off; from
\* the second sector on the player first docks and restocks.  With the titans
\* gone the player flies through their chunks to the ambient ore, cuts chunks
\* from there until more ore lies among them than the hold has room for, fetches
\* it, drops what charges are left in one go back at the ambient ore's place,
\* waits there with the laser held on the volatiles behind, rushes into the
\* chunks and back just before the blast, and holds the laser on the chunks
\* until it comes.
SalvoRestock ==
  /\ sector > 1
  /\ Has("TITAN")
  /\ mines = << >>
  /\ ship.ammo < STARTING_AMMO
  /\ ship.credits >= AMMO_COST

SalvoRush == mines # << >> /\ mines[1].timer = 4

SalvoOre == Len(SelectSeq(asteroids, LAMBDA a : a.tier = "ORE" /\ a.hp2 > 0))

SalvoRoom == ship.maxCargo - ship.cargo

SalvoFetch == mines = << >> /\ SalvoRoom > 0 /\ SalvoOre > SalvoRoom

SalvoTarget ==
  IF Has("TITAN")
    THEN IF mines # << >> THEN TitanSeedY + 2 * Cell
         ELSE IF SalvoRestock THEN 0
         ELSE TitanSeedY
  ELSE IF SalvoRush \/ SalvoFetch THEN TitanSeedY
  ELSE OreSeedY

SalvoDropDue ==
  /\ ship.ammo > 0
  /\ \A i \in 1..Len(mines) : mines[i].timer = MINE_TIMER
  /\ IF Has("TITAN")
       THEN mines = << >> /\ ~SalvoRestock /\ ship.y = TitanSeedY
       ELSE Has("CHUNK") /\ ship.y = OreSeedY /\ SalvoRoom = 0

SalvoInput ==
  [ v     |-> Sgn(SalvoTarget - ship.y) * SPAWN_SPEED,
    step  |-> ship.y # SalvoTarget,
    thrust |-> SalvoTarget < ship.y,
    laser |-> IF /\ ~Has("TITAN") /\ Has("CHUNK") /\ ship.y = OreSeedY
                 /\ IF mines # << >> THEN mines[1].timer <= 2
                    ELSE SalvoRoom > 0 /\ ~SalvoFetch
                THEN 1
              ELSE IF mines # << >> /\ ~SalvoRush /\ ship.y = OreSeedY
                THEN -1 ELSE 0 ]

SalvoFrame ==
  /\ ~SalvoDropDue
  /\ SalvoInput \in FrameInputs
  /\ update(SalvoInput)

SalvoDropKey == gameState = "PLAYING" /\ SalvoDropDue /\ handleKeyDown

SalvoBuyAmmo == ship.ammo < STARTING_AMMO /\ handleBuyAmmo

SalvoUndock ==
  /\ ship.ammo >= STARTING_AMMO \/ ship.credits < AMMO_COST
  /\ handleUndock

NextSalvo ==
  \/ handleStartGame
  \/ SalvoFrame
  \/ SalvoDropKey
  \/ SalvoBuyAmmo
  \/ SalvoUndock
  \/ handleNextSector

SpecSalvo == Init /\ [][NextSalvo]_vars

\* ------------------------------------------------------------ at the laser
\* The second sector some way in: the titans are blown up, two of their chunks
\* have drifted to rest beyond the ship, which has stopped two cells out; the
\* volatiles are untouched.  The chunks lie at distances around the laser's
\* range, off the lattice; the ship was docked before, where the ore of the
\* first sector was sold and, perhaps, the laser upgraded.  The player holds the
\* button, or not, aiming at one side, and lets go or turns only once the sparks
\* of the last cut have died.
LaserGrain == 10

LaserPost == -2 * Cell

LaserDistances ==
  { Cell, LASER_RANGE - LaserGrain, LASER_RANGE, LASER_RANGE + LaserGrain,
    LASER_RANGE + CHUNK_RADIUS }

LaserLevels == {1, 2}

InitLaser ==
  /\ gameState = "PLAYING"
  /\ sector = 2
  /\ sectorStats = [percent |-> 100, ore |-> AMBIENT_ORE]
  /\ \E level \in LaserLevels :
       /\ upgrades = [InitialUpgrades EXCEPT !.laserLevel = level]
       /\ ship = [ y |-> LaserPost, vy |-> 0, hull |-> 100, maxHull |-> 100,
                   shield |-> 0, maxShield |-> 0, cargo |-> 0, maxCargo |-> 20,
                   credits |-> STARTING_CREDITS + AMBIENT_ORE * ORE_VALUE
                                 - (IF level > 1 THEN UpgradeCost(1) ELSE 0),
                   ammo |-> STARTING_AMMO - 1, invulnerableTimer |-> 0 ]
  /\ \E near \in LaserDistances : \E far \in LaserDistances :
       /\ near <= far
       /\ asteroids = Repeat(volatileCount(2), spawnAsteroid("VOLATILE", VolatileSeedY, 0))
                        \o << spawnAsteroid("CHUNK", LaserPost - far, 0),
                              spawnAsteroid("CHUNK", LaserPost - near, 0) >>
  /\ mines = << >>
  /\ particles = NoParticles
  /\ prevGameState = "PLAYING"
  /\ prevSector = 2
  /\ levelInitialAsteroids = volatileCount(2) + BASE_TITANS + 2
  /\ sectorOreCollected = 0
  /\ cameraRef = [ zoom |-> ZoomStart ]
  /\ audio = init(AudioController)
  /\ clearedCalls = 0
  /\ tickLog = LogSince("undock", Calm)

LaserFrame ==
  \E aim \in {-1, 0, 1} :
    /\ particles # NoParticles => aim = tickLog.laser.aim
    /\ update([ v |-> 0, step |-> FALSE, laser |-> aim, thrust |-> FALSE ])

NextLaser == LaserFrame

SpecLaser == InitLaser /\ [][NextLaser]_vars

\* ------------------------------------------------------------ a sector's end
\* A later sector just before it is cleared: of the titans and volatiles seeded
\* all but a few are gone and their debris is collected and sold; some titans
\* are left around a mine about to blow up, and a number of volatiles, a tenth
\* of the seed at most, far from it.  The ship waits two cells from the mine,
\* with ore in the cell between, and may fetch it or not.
MaxReportSector == 5

ReportFuse == 2

ReportPost == TitanSeedY + 2 * Cell

ReportPosts == { ReportPost, ReportPost - Cell }

InitReport ==
  /\ gameState = "PLAYING"
  /\ sector \in 3..MaxReportSector
  /\ sectorStats = [percent |-> 100, ore |-> 0]
  /\ ship = [ y |-> ReportPost, vy |-> 0, hull |-> 100, maxHull |-> 100,
              shield |-> 0, maxShield |-> 0, cargo |-> 0, maxCargo |-> 20,
              credits |-> STARTING_CREDITS, ammo |-> STARTING_AMMO - 1,
              invulnerableTimer |-> 0 ]
  /\ upgrades = InitialUpgrades
  /\ levelInitialAsteroids \in { tc + volatileCount(sector) : tc \in TitanCounts(sector) }
  /\ \E left \in 0..(levelInitialAsteroids \div 10) : \E doomed \in 1..4 :
       /\ 10 * (left + doomed) > levelInitialAsteroids
       /\ asteroids = Repeat(left, spawnAsteroid("VOLATILE", VolatileSeedY, 0))
                        \o Repeat(doomed, spawnAsteroid("TITAN", TitanSeedY, 0))
                        \o Repeat(AMBIENT_ORE, spawnAsteroid("ORE", ReportPost - Cell, 0))
  /\ mines = << [ y |-> TitanSeedY, timer |-> ReportFuse, state |-> "PUCKER",
                  age |-> MINE_TIMER - ReportFuse, cues |-> 1 ] >>
  /\ particles = NoParticles
  /\ prevGameState = "PLAYING"
  /\ prevSector = sector
  /\ sectorOreCollected = 0
  /\ cameraRef = [ zoom |-> ZoomStart ]
  /\ audio = init(AudioController)
  /\ clearedCalls = 0
  /\ tickLog = LogSince("key", Calm)

ReportFrame ==
  \E in \in FrameInputs :
    /\ in.laser = 0
    /\ ~in.thrust
    /\ Controls(ship, in).y \in ReportPosts
    /\ update(in)

NextReport == ReportFrame

SpecReport == InitReport /\ [][NextReport]_vars

\* ============================================================ the claims
\* the tiers of the breakAsteroid calls of the last frame
BrokeTier(tier) ==
  \E i \in 1..Len(tickLog.breaks) : tickLog.breaks[i].tier = tier

\* C1: after every completed PLAYING tick the hull is within 0 and maxHull
C1_HullWithinBounds ==
  tickLog.event = "frame" => 0 <= ship.hull /\ ship.hull <= ship.maxHull

\* C2: in every state the cargo is within 0 and maxCargo
C2_CargoWithinBounds == 0 <= ship.cargo /\ ship.cargo <= ship.maxCargo

\* C3: in every state the shield is within 0 and maxShield
C3_ShieldWithinBounds == 0 <= ship.shield /\ ship.shield <= ship.maxShield

C3_Witness ==
  /\ tickLog.event = "frame"
  /\ ship.maxShield > 0
  /\ ship.shield = 0
  /\ ship.hull = ship.maxHull

\* C4: onSectorCleared is called at most once while a sector is played, also
\* when the ship docks on the qualifying tick and undocks afterwards
C4_ClearedOncePerSector == clearedCalls <= 1

C7_PuckerWithCue ==
  \A i \in 1..Len(mines) :
    /\ mines[i].timer <= MINE_PUCKER_DURATION => mines[i].state = "PUCKER"
    /\ mines[i].timer > MINE_PUCKER_DURATION => mines[i].state = "ARMED"
    /\ mines[i].cues > 0 <=> mines[i].state = "PUCKER"

\* C8: playMinePucker is requested once in the life of a mine: never before its
\* timer reaches MINE_PUCKER_DURATION, once from then on, once when it detonates
C8_OnePuckerCue ==
  /\ \A i \in 1..Len(mines) :
       mines[i].cues = IF mines[i].timer <= MINE_PUCKER_DURATION THEN 1 ELSE 0
  /\ \A i \in 1..Len(tickLog.detonated) : tickLog.detonated[i].cues = 1

C8_Witness ==
  /\ tickLog.detonated # << >>
  /\ tickLog.detonated[1].cues = 1

\* C9: a mine goes ARMED, PUCKER, DETONATING in that order and never back, stays
\* where it was dropped, loses one tick of its timer in every PLAYING tick and in
\* no other step, is blasted once, on the MINE_TIMER-th tick after the drop, and
\* is not in the collection at the end of that tick
Rank(state) ==
  CASE state = "ARMED" -> 0 [] state = "PUCKER" -> 1 [] state = "DETONATING" -> 2

C9_State ==
  \A i \in 1..Len(mines) :
    /\ mines[i].state # "DETONATING"
    /\ mines[i].timer > 0
    /\ mines[i].timer + mines[i].age = MINE_TIMER

C9_Step ==
  IF tickLog'.event = "frame"
    THEN LET live == SelectSeq(mines, LAMBDA m : m.timer > 1)
             gone == SelectSeq(mines, LAMBDA m : m.timer <= 1)
         IN /\ Len(mines') = Len(live)
            /\ \A i \in 1..Len(live) :
                 /\ mines'[i].timer = live[i].timer - 1
                 /\ mines'[i].y = live[i].y
                 /\ Rank(mines'[i].state) >= Rank(live[i].state)
            /\ Len(tickLog'.detonated) = Len(gone)
            /\ Len(tickLog'.blasts) = Len(gone)
            /\ \A i \in 1..Len(gone) :
                 /\ tickLog'.detonated[i].y = gone[i].y
                 /\ tickLog'.detonated[i].age = MINE_TIMER
                 /\ tickLog'.detonated[i].state = "DETONATING"
                 /\ tickLog'.blasts[i].mine = tickLog'.detonated[i]
    ELSE \/ mines' = mines
         \/ mines' = << >>
         \/ /\ Len(mines') = Len(mines) + 1
            /\ SubSeq(mines', 1, Len(mines)) = mines
            /\ mines'[Len(mines')].timer = MINE_TIMER
            /\ mines'[Len(mines')].state = "ARMED"
            /\ mines'[Len(mines')].y = ship.y

C9_MineLifecycle == [][C9_Step]_vars /\ []C9_State

C9_Witness ==
  /\ Len(tickLog.detonated) = 1
  /\ Len(tickLog.blasts) = 1
  /\ tickLog.detonated[1].age = MINE_TIMER
  /\ mines = << >>

\* C10: a detonation pushes and damages once every asteroid nearer than
\* MINE_BLAST_RADIUS, and leaves every other asteroid as it was
C10_Hits(blast, i) ==
  Cardinality({ k \in 1..Len(blast.applied) : blast.applied[k] = i })

C10_BlastOnceInRadius ==
  \A b \in 1..Len(tickLog.blasts) :
    LET blast == tickLog.blasts[b] IN
    /\ Len(blast.after) >= Len(blast.before)
    /\ \A i \in 1..Len(blast.before) :
         LET was == blast.before[i]
             is == blast.after[i]
             d == Abs(was.y - blast.mine.y)
         IN IF d < MINE_BLAST_RADIUS
              THEN /\ C10_Hits(blast, i) = 1
                   /\ is.tier = was.tier /\ is.y = was.y
                   /\ Abs(is.vy - was.vy)
                        = (MINE_BLAST_FORCE * (MINE_BLAST_RADIUS - d)) \div MINE_BLAST_RADIUS
                   /\ is.hp2 = CASE was.tier \in {"TITAN", "VOLATILE"} -> 0
                                 [] was.tier = "CHUNK" -> was.hp2 - 200
                                 [] OTHER -> was.hp2
              ELSE C10_Hits(blast, i) = 0 /\ is = was

C10_Witness ==
  \E b \in 1..Len(tickLog.blasts) :
    LET blast == tickLog.blasts[b] IN
    /\ \E i \in 1..Len(blast.before) :
         Abs(blast.before[i].y - blast.mine.y) < MINE_BLAST_RADIUS
    /\ \E i \in 1..Len(blast.before) :
         Abs(blast.before[i].y - blast.mine.y) >= MINE_BLAST_RADIUS

\* C11: a breakAsteroid call on a CHUNK adds 10 ORE, on a TITAN 5 CHUNKs, on a
\* VOLATILE 8 CHUNKs, and is never made on an ORE; a frame changes the length of
\* the asteroid list by what its breaks add less what its filters drop, and of
\* the other steps only a re-seed (a start, a next sector) changes the list
C11_Yield(tier) ==
  CASE tier = "CHUNK" -> 10 [] tier = "TITAN" -> 5 [] tier = "VOLATILE" -> 8 [] OTHER -> 0

RECURSIVE C11_Added(_, _)
C11_Added(breaks, i) ==
  IF i > Len(breaks) THEN 0 ELSE breaks[i].added + C11_Added(breaks, i + 1)

C11_Step ==
  IF tickLog'.event = "frame"
    THEN /\ \A i \in 1..Len(tickLog'.breaks) :
              /\ tickLog'.breaks[i].tier # "ORE"
              /\ tickLog'.breaks[i].added = C11_Yield(tickLog'.breaks[i].tier)
         /\ Len(asteroids') + Len(tickLog'.purged)
              = Len(asteroids) + C11_Added(tickLog'.breaks, 1)
         /\ Cardinality({ i \in 1..Len(tickLog'.purged) : tickLog'.purged[i].tier # "ORE" })
              = Len(tickLog'.breaks)
  ELSE IF tickLog'.event \in {"start", "next"}
    THEN \E tc \in TitanCounts(sector') : asteroids' = Seed(sector', tc)
  ELSE asteroids' = asteroids

C11_FragmentYield == [][C11_Step]_vars

C11_Witness ==
  /\ tickLog.event = "frame"
  /\ BrokeTier("CHUNK")
  /\ BrokeTier("VOLATILE")
  /\ \E i \in 1..Len(tickLog.purged) : tickLog.purged[i].tier = "CHUNK"
  /\ \E i \in 1..Len(asteroids) : asteroids[i].tier = "ORE"

\* C12: an asteroid has had no event while its hp is positive, and exactly one
\* (one breakAsteroid call or one pickup, never both, never two) once its hp is
\* <= 0, whether it is still in the list or was dropped by this frame's filters
C12_Events(ast) == ast.breaks + ast.picks

C12_OneEventPerLifetime ==
  /\ \A i \in 1..Len(asteroids) :
       IF asteroids[i].hp2 > 0 THEN C12_Events(asteroids[i]) = 0
       ELSE C12_Events(asteroids[i]) = 1
  /\ \A i \in 1..Len(tickLog.purged) : C12_Events(tickLog.purged[i]) = 1

\* a frame in which the laser has worn a CHUNK, a first mine breaks it and a
\* second mine's blast goes over it again, after which the filter drops it
C12_Witness ==
  /\ tickLog.event = "frame"
  /\ Len(tickLog.blasts) = 2
  /\ \E i \in 1..Len(tickLog.blasts[1].before) :
       LET was == tickLog.blasts[1].before[i]
           then == tickLog.blasts[2].before[i]
       IN /\ was.tier = "CHUNK" /\ was.hp2 > 0 /\ was.hp2 < 2 * 50
          /\ then.hp2 <= 0 /\ then.breaks = 1
          /\ \E j \in 1..Len(tickLog.blasts[2].applied) : tickLog.blasts[2].applied[j] = i
  /\ \E i \in 1..Len(tickLog.purged) :
       tickLog.purged[i].tier = "CHUNK" /\ tickLog.purged[i].breaks = 1

\* C13: when a frame ends, no asteroid with hp <= 0 is in the asteroid list
C13_NoDeadAfterFrame ==
  tickLog.event = "frame" => \A i \in 1..Len(asteroids) : asteroids[i].hp2 > 0

\* C14: a frame that begins with invulnerableTimer > 0 lowers neither the hull
\* nor the shield, whatever collides with the ship or blows up next to it
C14_Step ==
  (gameState = "PLAYING" /\ tickLog'.event = "frame" /\ ship.invulnerableTimer > 0)
    => (ship'.hull >= ship.hull /\ ship'.shield >= ship.shield)

C14_NoDamageWhileInvulnerable == [][C14_Step]_vars

\* after a frame that began with the timer running (it was not set in this
\* frame, so it began one higher): a mine blew up with the ship inside its blast
C14_Witness ==
  /\ tickLog.event = "frame"
  /\ ship.invulnerableTimer > 0
  /\ ship.invulnerableTimer \notin {HIT_INVULNERABLE - 1, BLAST_INVULNERABLE - 1}
  /\ \E i \in 1..Len(tickLog.detonated) :
       distance(tickLog.detonated[i].y, ship.y) < MINE_BLAST_RADIUS

\* C15, as stated: the invulnerability timer is never negative, and while it is
\* above 0 a frame in PLAYING lowers it by exactly 1 and no step raises it
C15_AsStated ==
  /\ ship'.invulnerableTimer >= 0
  /\ ship.invulnerableTimer > 0 =>
       IF gameState = "PLAYING" /\ tickLog'.event = "frame"
         THEN ship'.invulnerableTimer = ship.invulnerableTimer - 1
       ELSE ship'.invulnerableTimer <= ship.invulnerableTimer

C15_TimerNeverRaised == [][C15_AsStated]_vars

\* C15, amended: the invulnerability timer is never negative; a start and a next
\* sector set it to 60 whatever it was; apart from those, while it is above 0 a
\* frame in PLAYING lowers it by exactly 1 and every other step leaves it
C15_Step ==
  /\ ship'.invulnerableTimer >= 0
  /\ IF tickLog'.event \in {"start", "next"}
       THEN ship'.invulnerableTimer = SPAWN_INVULNERABLE
     ELSE ship.invulnerableTimer > 0 =>
       IF gameState = "PLAYING" /\ tickLog'.event = "frame"
         THEN ship'.invulnerableTimer = ship.invulnerableTimer - 1
       ELSE ship'.invulnerableTimer = ship.invulnerableTimer

C15_TimerCountsDown == [][C15_Step]_vars

\* the game is over, or the sector cleared, while the timer is still counting
\* down from an earlier frame: the re-seed that follows raises it
C15_Witness ==
  /\ gameState \in {"GAME_OVER", "SECTOR_CLEARED"}
  /\ tickLog.event = "frame"
  /\ ship.invulnerableTimer > 0
  /\ ship.invulnerableTimer < HIT_INVULNERABLE - 1

\* C16: in a frame, each ORE the ship overlaps is taken while the hold has
\* room (cargo one up, the ORE's hp put to 0, one pickup cue) and left as it is,
\* hp unchanged, without a cue, once cargo has reached maxCargo; an ORE the ship
\* does not overlap is never taken, and an ORE taken in an earlier frame is in
\* the list no more
C16_Overlaps(i) ==
  /\ asteroids'[i].tier = "ORE"
  /\ checkCollision(ship'.y, SHIP_RADIUS, asteroids'[i].y, ORE_RADIUS)

C16_Taken == { i \in 1..Len(asteroids') : asteroids'[i].hp2 <= 0 }

C16_Step ==
  (gameState = "PLAYING" /\ tickLog'.event = "frame") =>
    /\ \A i \in C16_Taken : C16_Overlaps(i) /\ asteroids'[i].picks = 1
    /\ ship'.cargo = ship.cargo + Cardinality(C16_Taken)
    /\ tickLog'.pickups = Cardinality(C16_Taken)
    /\ C16_Taken # {} => ship'.cargo <= ship'.maxCargo
    /\ \A i \in 1..Len(asteroids') :
         (C16_Overlaps(i) /\ i \notin C16_Taken) =>
            /\ ship'.cargo >= ship'.maxCargo
            /\ asteroids'[i].hp2 = 2 * 1
            /\ asteroids'[i].picks = 0

C17_Edges ==
  { << "MENU", "PLAYING" >>, << "PLAYING", "DOCKED" >>,
    << "PLAYING", "SECTOR_CLEARED" >>, << "PLAYING", "GAME_OVER" >>,
    << "DOCKED", "PLAYING" >>, << "SECTOR_CLEARED", "PLAYING" >>,
    << "GAME_OVER", "PLAYING" >>, << "GAME_OVER", "MENU" >> }

C17_Step ==
  gameState' # gameState =>
    /\ << gameState, gameState' >> \in C17_Edges
    /\ gameState' = "DOCKED" =>
         /\ tickLog'.event = "frame"
         /\ Abs(ship'.y) < STATION_RADIUS + SHIP_RADIUS
         /\ Abs(ship'.vy) < 1

C18_Reseeds ==
  \/ gameState' = "PLAYING" /\ gameState \in {"MENU", "GAME_OVER"}
  \/ sector' # sector

C18_Step ==
  C18_Reseeds =>
    /\ \E tc \in TitanCounts(sector') :
         /\ asteroids' = Seed(sector', tc)
         /\ levelInitialAsteroids' = volatileCount(sector') + tc
    /\ mines' = << >>
    /\ particles' = NoParticles
    /\ sectorOreCollected' = 0
    /\ ship'.y = 0
    /\ ship'.vy = -4
    /\ ship'.invulnerableTimer = 60

C18_ReseedOnStartAndSector == [][C18_Step]_vars

\* a game started again from GAME_OVER, after a game that had cleared a sector
\* before it was lost (the sector report is what a start leaves of that game)
C18_Witness ==
  /\ tickLog.event = "start"
  /\ gameState = "PLAYING"
  /\ sector = 1
  /\ sectorStats.percent > 0
  /\ \E tc \in TitanCounts(sector) : asteroids = Seed(sector, tc)

\* C19: the laser of a frame changes the hp of at most one asteroid of the list
\* it finds, lowers it, and that asteroid is a CHUNK
C19_Lowered ==
  { i \in 1..Len(tickLog.laser.before) :
      tickLog.laser.after[i].hp2 # tickLog.laser.before[i].hp2 }

C19_LaserOneChunk ==
  /\ Len(tickLog.laser.after) = Len(tickLog.laser.before)
  /\ Cardinality(C19_Lowered) <= 1
  /\ \A i \in C19_Lowered :
       /\ tickLog.laser.before[i].tier = "CHUNK"
       /\ tickLog.laser.after[i].hp2 < tickLog.laser.before[i].hp2
  /\ ~tickLog.laser.on => tickLog.laser.before = << >>

C19_InBeam(i) ==
  LET ast == tickLog.laser.before[i]
  IN /\ ast.hp2 > 0
     /\ distance(ship.y, ast.y) < LASER_RANGE + Radius(ast.tier)
     /\ ast.y # ship.y

\* the laser was on with several CHUNKs and ORE in reach on the side it cut one
\* CHUNK on
C19_Witness ==
  /\ tickLog.event = "frame"
  /\ tickLog.laser.on
  /\ Cardinality(C19_Lowered) = 1
  /\ \E i, j, k \in 1..Len(tickLog.laser.before) :
       /\ i \in C19_Lowered /\ j \notin C19_Lowered /\ k \notin C19_Lowered
       /\ C19_InBeam(i) /\ C19_InBeam(j) /\ C19_InBeam(k)
       /\ tickLog.laser.before[j].tier = "CHUNK"
       /\ tickLog.laser.before[k].tier = "ORE"
       /\ tickLog.laser.before[j].y = tickLog.laser.before[i].y
       /\ tickLog.laser.before[k].y = tickLog.laser.before[i].y

\* C20: in a frame with the button down and a CHUNK nearer than LASER_RANGE +
\* its radius on the side aimed at, a nearest such CHUNK loses 1 + 0.5 *
\* laserLevel hp to the laser
C20_Candidates ==
  { i \in 1..Len(tickLog.laser.before) :
      LET ast == tickLog.laser.before[i]
      IN /\ ast.tier = "CHUNK"
         /\ distance(ship.y, ast.y) < LASER_RANGE + Radius(ast.tier)
         /\ ast.y # ship.y
         /\ Sgn(ast.y - ship.y) = tickLog.laser.aim }

C20_NearestChunkCut ==
  (tickLog.event = "frame" /\ tickLog.laser.on /\ C20_Candidates # {}) =>
    \E i \in C20_Candidates :
      /\ \A j \in C20_Candidates :
           distance(ship.y, tickLog.laser.before[i].y)
             <= distance(ship.y, tickLog.laser.before[j].y)
      /\ tickLog.laser.after[i].hp2
           = tickLog.laser.before[i].hp2 - (2 + upgrades.laserLevel)

\* C21: the report of a cleared sector carries percent = floor(100 * (initial -
\* survivors) / initial), within 0..100, and the ore taken since the field was
\* seeded: sectorOreCollected, which a re-seed puts to 0, a frame raises by its
\* pickups and nothing else changes
C21_Survivors ==
  Cardinality({ i \in 1..Len(asteroids') :
                  asteroids'[i].tier \in {"TITAN", "VOLATILE"} /\ asteroids'[i].hp2 > 0 })

C21_Step ==
  /\ IF tickLog'.event \in {"start", "next"} THEN sectorOreCollected' = 0
     ELSE IF tickLog'.event = "frame"
       THEN sectorOreCollected' = sectorOreCollected + tickLog'.pickups
     ELSE sectorOreCollected' = sectorOreCollected
  /\ sectorOreCollected' >= 0
  /\ IF tickLog'.event = "frame" /\ tickLog'.requests # << >>
        /\ tickLog'.requests[1] = "SECTOR_CLEARED"
       THEN /\ sectorStats'.percent
                 = (100 * (levelInitialAsteroids - C21_Survivors)) \div levelInitialAsteroids
            /\ sectorStats'.percent \in 0..100
            /\ sectorStats'.ore = sectorOreCollected'
     ELSE sectorStats' = sectorStats

C21_SectorReport == [][C21_Step]_vars

\* a sector cleared with survivors, after ore was taken
C21_Witness ==
  /\ gameState = "SECTOR_CLEARED"
  /\ tickLog.event = "frame"
  /\ sectorStats.percent < 100
  /\ sectorStats.ore > 0

\* C22: a shop handler called when it cannot be paid for or has nothing to do
\* (ammo with credits < 50, repair with credits < cost or a whole hull, upgrade
\* with credits < floor(150 * 1.5^(level - 1)), sell with an empty hold) leaves
\* credits, ammo, hull, cargo and the upgrade levels as they are; credits are
\* never negative
C22_Cost(level) ==
  IF level >= 1 THEN (150 * Pow(3, level - 1)) \div Pow(2, level - 1)
  ELSE (150 * Pow(2, 1 - level)) \div Pow(3, 1 - level)

C22_Declined(kind) ==
  \/ kind = "ammo" /\ ship.credits < 50
  \/ kind = "repair" /\ (ship.credits < (ship.maxHull - ship.hull) * 2
                           \/ ship.hull = ship.maxHull)
  \/ kind \in UpgradeTypes /\ ship.credits < C22_Cost(upgrades[kind])
  \/ kind = "sell" /\ ship.cargo = 0

C22_Step ==
  /\ ship'.credits >= 0
  /\ (/\ tickLog'.event = "shop"
      /\ tickLog'.loops = NoLoops   \* the handler's own step, no idle frame after it
      /\ C22_Declined(tickLog'.shop.kind)) =>
       /\ ship'.credits = ship.credits
       /\ ship'.ammo = ship.ammo
       /\ ship'.hull = ship.hull
       /\ ship'.cargo = ship.cargo
       /\ upgrades' = upgrades
       /\ ~tickLog'.shop.synced

C22_DeclinedShopActions == [][C22_Step]_vars

\* an upgrade asked for with some credits, but too few, and turned down
C22_Witness ==
  /\ tickLog.event = "shop"
  /\ tickLog.shop.kind = "shieldLevel"
  /\ ~tickLog.shop.synced
  /\ ship.credits > 0
  /\ ship.credits < C22_Cost(upgrades.shieldLevel)

\* C23: asking a loop off (setThrust(false), setLaser(false), setTractor(false))
\* while that loop is off leaves its flag off and schedules no stop, in a frame
\* as in an idle frame, as often as it is asked; an idle frame that finds all
\* three loops off leaves the controller as it is
C23_LoopNames == {"thrust", "laser", "tractor"}

C23_Flag(a, loop) ==
  CASE loop = "thrust" -> a.isThrusting
    [] loop = "laser" -> a.isFiring
    [] loop = "tractor" -> a.isTractoring

C23_Step ==
  /\ \A loop \in C23_LoopNames :
       (tickLog'.loops[loop].asked = "off" /\ ~C23_Flag(audio, loop)) =>
         /\ ~C23_Flag(audio', loop)
         /\ tickLog'.loops[loop].did = ""
  /\ ( /\ \A loop \in C23_LoopNames :
            tickLog'.loops[loop].asked = "off" /\ ~C23_Flag(audio, loop) )
       => audio' = audio

C23_OffWhenOff == [][C23_Step]_vars

\* in the dock, after a sale, an idle frame has asked the three silent loops off
C23_Witness ==
  /\ audio.ctx
  /\ gameState = "DOCKED"
  /\ tickLog.event = "shop"
  /\ \A loop \in C23_LoopNames :
       /\ tickLog.loops[loop] = [ asked |-> "off", did |-> "" ]
       /\ ~C23_Flag(audio, loop)

\* ------------------------------------------------------------ the speed cap
\* update, "Cap speed", on the vectors of whole components whose length is whole
\* too (Math.sqrt is then exact).  A binary64 number is kept as its sign, its 53
\* leading bits (least bit first) and the shift s with |x| = 1.bits * 2^-s.
MAX_SPEED == 8
MaxSpeedIn == 25
MaxCapLevel == 5

Zero == [ neg |-> FALSE, bits |-> [i \in 1..53 |-> 0], s |-> 0 ]

\* the binary64 number a whole number is
FromInt(n) ==
  IF n = 0 THEN Zero
  ELSE LET len == BitLength(Abs(n))
       IN [ neg |-> n < 0,
            bits |-> [i \in 1..53 |->
                        IF 53 - i <= len - 1
                          THEN (Abs(n) \div Pow2(len - 1 - (53 - i))) % 2 ELSE 0],
            s |-> -(len - 1) ]

\* the whole number a binary64 number of the inputs is
Whole(d) == CHOOSE n \in -MaxSpeedIn..MaxSpeedIn : FromInt(n) = d

\* q * k for a binary64 q > 0 (bits and shift) and a whole k > 0, rounded
F64Times(q, k) ==
  LET p == Times(q.bits, k, 1, 53, 0)
      over == BitLength(p.high)
      all == p.low \o [i \in 1..over |-> (p.high \div Pow2(i - 1)) % 2]
      kept == [i \in 1..53 |-> all[i + over]]
      dropped == LowValue(p.low, over)
      half == Pow2(over - 1)
      cmp == IF dropped > half THEN 1 ELSE IF dropped = half THEN 0 ELSE -1
      inc == Inc(kept)
  IN IF over = 0 THEN q
     ELSE IF RoundUp(cmp, kept[1])
       THEN IF inc.carry = 1
              THEN [ bits |-> [i \in 1..53 |-> IF i = 53 THEN 1 ELSE 0],
                     s |-> q.s - over - 1 ]
              ELSE [ bits |-> inc.bits, s |-> q.s - over ]
     ELSE [ bits |-> kept, s |-> q.s - over ]

\* Math.sqrt(ship.vx * ship.vx + ship.vy * ship.vy), of a whole length
Velocity(x, y) == CHOOSE r \in 0..(2 * MaxSpeedIn) : r * r = x * x + y * y

\* maxSpeed = MAX_SPEED + (upgrades.engineLevel * 0.5), doubled
MaxSpeed2(level) == 2 * MAX_SPEED + level

\* a variant of Exceeds that would never cap the speed
ExceedsNever(velocity, level) == FALSE

\* update, "Cap speed": velocity > maxSpeed
Exceeds(velocity, level) == 2 * velocity > MaxSpeed2(level)

\* update, "Cap speed": (ship.vx / velocity) * maxSpeed, of the component a
Rescale(a, velocity, level) ==
  IF a = 0 THEN Zero
  ELSE LET p == F64Times(F64Div(Abs(a), velocity), MaxSpeed2(level))
       IN [ neg |-> a < 0, bits |-> p.bits, s |-> p.s + 1 ]

\* update, "Cap speed", on the ship s
capSpeed(s, u) ==
  LET x == Whole(s.vx)
      y == Whole(s.vy)
      velocity == Velocity(x, y)
  IN IF Exceeds(velocity, u.engineLevel)
       THEN [s EXCEPT !.vx = Rescale(x, velocity, u.engineLevel),
                      !.vy = Rescale(y, velocity, u.engineLevel)]
     ELSE s

\* the velocities the cap is tried on
CapVectors ==
  { v \in (-MaxSpeedIn..MaxSpeedIn) \X (-MaxSpeedIn..MaxSpeedIn) :
      /\ v # << 0, 0 >>
      /\ \E r \in 1..MaxSpeedIn : r * r = v[1] * v[1] + v[2] * v[2] }

InitCap ==
  /\ gameState = "PLAYING"
  /\ sector = 1
  /\ sectorStats = [percent |-> 0, ore |-> 0]
  /\ \E level \in 1..MaxCapLevel : \E v \in CapVectors :
       /\ upgrades = [InitialUpgrades EXCEPT !.engineLevel = level]
       /\ ship = [ y |-> 0, vx |-> FromInt(v[1]), vy |-> FromInt(v[2]),
                   hull |-> 100, maxHull |-> 100, shield |-> 0, maxShield |-> 0,
                   cargo |-> 0, maxCargo |-> 20, credits |-> 0,
                   ammo |-> STARTING_AMMO, invulnerableTimer |-> 0 ]
       /\ tickLog = [ event |-> "controls", vx |-> v[1], vy |-> v[2] ]
  /\ asteroids = << >>
  /\ mines = << >>
  /\ particles = NoParticles
  /\ prevGameState = "PLAYING"
  /\ prevSector = 1
  /\ levelInitialAsteroids = 0
  /\ sectorOreCollected = 0
  /\ cameraRef = [ zoom |-> ZoomStart ]
  /\ audio = init(AudioController)
  /\ clearedCalls = 0

\* the cap of one frame, after its controls
CapFrame ==
  /\ tickLog.event = "controls"
  /\ ship' = capSpeed(ship, upgrades)
  /\ tickLog' = [tickLog EXCEPT !.event = "cap"]
  /\ UNCHANGED << gameState, sector, sectorStats, upgrades, asteroids, mines, particles,
                  prevGameState, prevSector, levelInitialAsteroids, sectorOreCollected,
                  cameraRef, audio, clearedCalls >>

NextCap == CapFrame

SpecCap == InitCap /\ [][NextCap]_vars

\* C24: a velocity longer than maxSpeed = MAX_SPEED + 0.5 * engineLevel comes out
\* of the cap with each component within one unit in the last place of the
\* component of the same direction and length maxSpeed, its sign kept and a
\* zero component still zero; a velocity no longer than maxSpeed comes out as
\* it went in
C24_TooFast ==
  4 * (tickLog.vx * tickLog.vx + tickLog.vy * tickLog.vy)
    > (16 + upgrades.engineLevel) * (16 + upgrades.engineLevel)

\* a * maxSpeed / length, rounded once
C24_Ideal(a) ==
  IF a = 0 THEN Zero
  ELSE LET length == Velocity(tickLog.vx, tickLog.vy)
           num == Abs(a) * (16 + upgrades.engineLevel)
           j == CHOOSE k \in 0..12 :
                  /\ num <= 2 * length * Pow2(k)
                  /\ \A l \in 0..(k - 1) : num > 2 * length * Pow2(l)
           d == F64Div(num, 2 * length * Pow2(j))
       IN [ neg |-> a < 0, bits |-> d.bits, s |-> d.s - j ]

C24_Near(o, e) ==
  /\ o.neg = e.neg
  /\ o.s = e.s
  /\ \/ o.bits = e.bits
     \/ Inc(o.bits).bits = e.bits
     \/ Inc(e.bits).bits = o.bits

C24_Cross(o, b, shift) ==
  IF b = 0 \/ o = Zero THEN [ low |-> << >>, high |-> 0 ]
  ELSE Times(o.bits, Abs(b) * Pow2(shift), 1, 53, 0)

CrashGrace == 2
CrashGap == 5
CrashRun == 2
CrashPosts == {TitanSeedY, OreSeedY, VolatileSeedY}

InitCrash ==
  /\ gameState = "PLAYING"
  /\ sector = 2
  /\ sectorStats = [percent |-> 100, ore |-> AMBIENT_ORE]
  /\ \E level \in {0, 1} : \E up \in BOOLEAN : \E timer \in {0, CrashGrace} :
     \E charges \in {1, STARTING_AMMO} : \E post \in {OreSeedY, TitanSeedY} :
       /\ upgrades = [InitialUpgrades EXCEPT !.shieldLevel = level]
       /\ ship = [ y |-> post, vy |-> 0, hull |-> 100, maxHull |-> 100,
                   shield |-> IF up THEN level * 100 ELSE 0,
                   maxShield |-> level * 100, cargo |-> 0, maxCargo |-> 20,
                   credits |-> STARTING_CREDITS + AMBIENT_ORE * ORE_VALUE
                                 - (IF level > 0 THEN UpgradeCost(0) ELSE 0),
                   ammo |-> charges, invulnerableTimer |-> timer ]
  /\ \E broken \in BOOLEAN :
       asteroids = Repeat(volatileCount(2), spawnAsteroid("VOLATILE", VolatileSeedY, 0))
                     \o (IF broken
                           THEN Repeat(2, spawnAsteroid("CHUNK", TitanSeedY, 0))
                           ELSE Repeat(BASE_TITANS, spawnAsteroid("TITAN", TitanSeedY, 0)))
  /\ mines = << >>
  /\ particles = NoParticles
  /\ prevGameState = "PLAYING"
  /\ prevSector = 2
  /\ levelInitialAsteroids = volatileCount(2) + BASE_TITANS
  /\ sectorOreCollected = AMBIENT_ORE
  /\ cameraRef = [ zoom |-> ZoomStart ]
  /\ audio = init(AudioController)
  /\ clearedCalls = 0
  /\ tickLog = LogSince("undock", Calm)

CrashFrame ==
  \E in \in FrameInputs :
    /\ in.laser = 0
    /\ ~in.thrust
    /\ in.step <=> in.v # 0
    /\ (mines # << >> /\ mines[1].timer > CrashRun) => in.v = 0
    /\ Controls(ship, in).y \in CrashPosts
    /\ update(in)

\* the key is pressed before anything else, once more CrashGap frames later,
\* and when the game has just ended; the ship stays with its mines until the
\* first has CrashRun frames to go
CrashDropKey ==
  /\ \/ gameState = "PLAYING" /\ mines = << >> /\ tickLog.event = "undock"
     \/ gameState = "PLAYING" /\ tickLog.event = "key" /\ ship.ammo = 0
     \/ gameState = "PLAYING" /\ Len(mines) = 1 /\ mines[1].timer = MINE_TIMER - CrashGap
     \/ gameState # "PLAYING" /\ tickLog.event = "frame"
  /\ handleKeyDown

NextCrash ==
  \/ CrashFrame
  \/ CrashDropKey

SpecCrash == InitCrash /\ [][NextCrash]_vars

\* C25: an asteroid other than ORE that overlaps the ship while the timer is 0,
\* at a relative speed above 2 or being a VOLATILE, takes the shield to 0 and
\* leaves the hull if there is shield, and else takes 100 (TITAN), 150
\* (VOLATILE) or 20 (CHUNK) off the hull; either way it sets the timer to 60.
\* Any other overlap leaves hull, shield and timer as they were
C25_Rule(h) ==
  IF h.before.timer = 0 /\ (h.vRel > 2 \/ h.tier = "VOLATILE")
    THEN /\ h.after.timer = 60
         /\ IF h.before.shield > 0
              THEN h.after.shield = 0 /\ h.after.hull = h.before.hull
              ELSE /\ h.after.shield = h.before.shield
                   /\ h.after.hull = h.before.hull
                        - (CASE h.tier = "TITAN" -> 100
                             [] h.tier = "VOLATILE" -> 150
                             [] h.tier = "CHUNK" -> 20)
    ELSE h.after = h.before

C25_CollisionRule ==
  /\ \A i \in 1..Len(tickLog.hits) : C25_Rule(tickLog.hits[i])
  /\ (tickLog.event = "frame" /\ tickLog.hits = << >> /\ tickLog.detonated = << >>)
       => ship.invulnerableTimer # 59

\* a VOLATILE the ship rests against struck its shield, and the next one in the
\* cell found the timer running
C25_Witness ==
  /\ Len(tickLog.hits) > 1
  /\ tickLog.hits[1].tier = "VOLATILE"
  /\ tickLog.hits[1].vRel = 0
  /\ tickLog.hits[1].before.timer = 0
  /\ tickLog.hits[1].before.shield > 0
  /\ tickLog.hits[1].after.shield = 0
  /\ tickLog.hits[1].after.timer = 60
  /\ tickLog.hits[2].after = tickLog.hits[2].before

\* C26: of the asteroids a detonating mine finds within its radius, a TITAN or
\* a VOLATILE is left with hp 0 and is out of the list when the frame ends, a
\* CHUNK is left with 100 hp less, and an ORE with the hp it had; an ORE leaves
\* the list only picked up, dropped by a frame's filter, or with the whole list
\* at a re-seed
C26_Ores(asts) == Len(SelectSeq(asts, LAMBDA a : a.tier = "ORE"))

C26_Step ==
  IF tickLog'.event = "frame"
    THEN /\ \A b \in 1..Len(tickLog'.blasts) :
              LET blast == tickLog'.blasts[b] IN
              /\ \A i \in 1..Len(blast.before) :
                   LET was == blast.before[i]
                       is == blast.after[i]
                   IN Abs(was.y - blast.mine.y) < 300 =>
                        CASE was.tier \in {"TITAN", "VOLATILE"} -> is.hp2 = 0
                          [] was.tier = "CHUNK" -> is.hp2 = was.hp2 - 2 * 100
                          [] was.tier = "ORE" -> is.hp2 = was.hp2
              /\ \A i \in 1..Len(asteroids') :
                   asteroids'[i].tier \in {"TITAN", "VOLATILE"} =>
                     Abs(asteroids'[i].y - blast.mine.y) >= 300
         /\ \A i \in 1..Len(tickLog'.purged) :
              tickLog'.purged[i].tier = "ORE" => tickLog'.purged[i].picks = 1
         /\ C26_Ores(asteroids') + C26_Ores(tickLog'.purged)
              = C26_Ores(asteroids)
                  + 10 * Len(SelectSeq(tickLog'.breaks, LAMBDA r : r.tier = "CHUNK"))
  ELSE \/ tickLog'.event \in {"start", "next"}
       \/ asteroids' = asteroids

C26_BlastDamageByTier == [][C26_Step]_vars

\* one blast found a VOLATILE, a CHUNK and an ORE in its radius, and the ORE is
\* still in the list
C26_Witness ==
  /\ tickLog.event = "frame"
  /\ \E b \in 1..Len(tickLog.blasts) :
       LET blast == tickLog.blasts[b]
           near(tier) == \E i \in 1..Len(blast.before) :
                           /\ blast.before[i].tier = tier
                           /\ blast.before[i].hp2 > 0
                           /\ Abs(blast.before[i].y - blast.mine.y) < 300
       IN /\ near("VOLATILE") /\ near("CHUNK") /\ near("ORE")
          /\ \E i \in 1..Len(asteroids) :
               /\ asteroids[i].tier = "ORE"
               /\ asteroids[i].hp2 > 0
               /\ Abs(asteroids[i].y - blast.mine.y) < 300

\* C27: a detonating mine nearer to the ship than its radius pushes the ship;
\* with the timer at 0 it takes the shield to 0, leaves the hull and sets the
\* timer to 60 if there is shield, and else takes 50 * (1 - d/300) off the hull
\* and sets the timer to 30; with the timer running it leaves hull, shield and
\* timer as they were
C27_Rule(blast) ==
  LET was == blast.ship
      is == blast.struck
      d == Abs(was.y - blast.mine.y)
  IN IF d < 300
       THEN /\ Abs(is.vy - was.vy) = (45 * (300 - d)) \div 600
            /\ is.y = was.y
            /\ IF was.invulnerableTimer = 0
                 THEN IF was.shield > 0
                        THEN /\ is.shield = 0
                             /\ is.hull = was.hull
                             /\ is.invulnerableTimer = 60
                        ELSE /\ is.shield = was.shield
                             /\ is.hull = was.hull - (50 * (300 - d)) \div 300
                             /\ is.invulnerableTimer = 30
                 ELSE /\ is.shield = was.shield
                      /\ is.hull = was.hull
                      /\ is.invulnerableTimer = was.invulnerableTimer
     ELSE is = was

C27_BlastOnShip == \A b \in 1..Len(tickLog.blasts) : C27_Rule(tickLog.blasts[b])

\* a shielded ship, a cell away from its mine, lost the shield to the blast
C27_Witness ==
  \E b \in 1..Len(tickLog.blasts) :
    LET blast == tickLog.blasts[b] IN
    /\ Abs(blast.ship.y - blast.mine.y) = 150
    /\ blast.ship.invulnerableTimer = 0
    /\ blast.ship.shield > 0
    /\ blast.struck.shield = 0
    /\ blast.struck.invulnerableTimer = 60

\* C28: a press of Space in PLAYING with a charge left takes exactly one charge
\* and appends exactly one ARMED mine with timer 180 where the ship is; with no
\* charge left it appends nothing, leaves the ammo at 0 and asks for the error
\* cue; in any other phase it changes nothing.  The ammo is never negative
C28_Rest ==
  << gameState, sector, sectorStats, upgrades, asteroids, particles, prevGameState,
     prevSector, levelInitialAsteroids, sectorOreCollected, cameraRef, audio,
     clearedCalls >>

C28_Step ==
  /\ ship'.ammo >= 0
  /\ tickLog'.event = "key" =>
       /\ C28_Rest' = C28_Rest
       /\ IF gameState = "PLAYING" /\ ship.ammo > 0
            THEN /\ ship' = [ship EXCEPT !.ammo = ship.ammo - 1]
                 /\ Len(mines') = Len(mines) + 1
                 /\ SubSeq(mines', 1, Len(mines)) = mines
                 /\ mines'[Len(mines')].state = "ARMED"
                 /\ mines'[Len(mines')].timer = 180
                 /\ mines'[Len(mines')].y = ship.y
                 /\ tickLog'.cue = "armed"
          ELSE IF gameState = "PLAYING"
            THEN /\ ship' = ship /\ ship'.ammo = 0
                 /\ mines' = mines
                 /\ tickLog'.cue = "error"
          ELSE /\ ship' = ship
               /\ mines' = mines
               /\ tickLog'.cue = ""

C28_MineDrop == [][C28_Step]_vars

\* the last charge went, and the next press got the error cue
C28_Witness ==
  /\ gameState = "PLAYING"
  /\ tickLog.event = "key"
  /\ tickLog.cue = "error"
  /\ ship.ammo = 0
  /\ Len(mines) = 1

\* ------------------------------------------------------------ the wheel
\* handleWheel: an event whose deltaY has the sign given moves the zoom by a
\* tenth the other way, within 0.4 and 2.0, and only while PLAYING
handleWheel ==
  \E sign \in {-1, 0, 1} :
    /\ cameraRef' = IF gameState = "PLAYING"
                      THEN [cameraRef EXCEPT !.zoom = newZoom(cameraRef.zoom, sign)]
                      ELSE cameraRef
    /\ tickLog' = [ event |-> "wheel", sign |-> sign, zoom |-> cameraRef.zoom,
                    calm |-> tickLog.calm ]
    /\ UNCHANGED << gameState, sector, sectorStats, ship, upgrades, asteroids, mines,
                    particles, prevGameState, prevSector, levelInitialAsteroids,
                    sectorOreCollected, audio, clearedCalls >>

\* a game of the first sector in which the ship leaves the station, waits until
\* it can be hurt and then flies straight into the TITANs, while the wheel turns,
\* and is started again
ZoomFrame ==
  \E in \in FrameInputs :
    /\ in.laser = 0
    /\ ~in.thrust
    /\ in.v = (IF CanDockAtSpeed(ship) \/ Vulnerable(ship) THEN -SPAWN_SPEED ELSE 0)
    /\ in.step <=> in.v # 0
    /\ update(in)

NextZoom ==
  \/ handleStartGame
  \/ handleWheel
  \/ ZoomFrame

SpecZoom == Init /\ [][NextZoom]_vars

\* the distance between two zooms, and half the spacing of the binary64 numbers
\* between 1 and 2 (2^-53)
C29_Gap(x, y) == IF Less(x, y) THEN Minus(y, x) ELSE Minus(x, y)
C29_HalfUlp == [j \in 1..ZoomBits |-> IF j = 4 THEN 1 ELSE 0]

C29_Within(z) == ~Less(z, ZoomMin) /\ ~Less(ZoomMax, z)

\* C29 as stated: the zoom is always between 0.4 and 2.0; a wheel event changes
\* it by at most 0.1 (taken as the binary64 number 0.1, which is the larger),
\* and leaves it alone outside PLAYING
C29_ZoomByTenth ==
  [][ /\ C29_Within(cameraRef'.zoom)
      /\ tickLog'.event = "wheel" =>
            /\ \A gap \in {C29_Gap(cameraRef.zoom, cameraRef'.zoom)} :
                 ~Less(ZoomStep, gap)
            /\ gameState # "PLAYING" => cameraRef' = cameraRef ]_vars

\* C29: the zoom is always between 0.4 and 2.0, whatever wheel events and
\* re-seeds came before; a re-seed leaves it at 0.8; a wheel event changes it
\* by at most the binary64 number 0.1 plus 2^-53, the sum being rounded to
\* binary64, and leaves it alone outside PLAYING
C29_ZoomRule ==
  [][ /\ C29_Within(cameraRef'.zoom)
      /\ tickLog'.event \in {"start", "next"} => cameraRef'.zoom = ZoomStart
      /\ tickLog'.event = "wheel" =>
            /\ \A gap \in {C29_Gap(cameraRef.zoom, cameraRef'.zoom)} :
               \A most \in {Plus(ZoomStep, C29_HalfUlp)} :
                 ~Less(most, gap)
            /\ tickLog'.sign = 0 => cameraRef' = cameraRef
            /\ gameState # "PLAYING" => cameraRef' = cameraRef ]_vars

\* a wheel event in PLAYING has moved the zoom by more than the binary64 number
\* 0.1, and the zoom is within its bounds
C29_Witness ==
  /\ gameState = "PLAYING"
  /\ tickLog.event = "wheel"
  /\ \E gap \in {C29_Gap(tickLog.zoom, cameraRef.zoom)} : Less(ZoomStep, gap)
  /\ C29_Within(cameraRef.zoom)

\* ------------------------------------------------------------ the passes of a tick
\* one blast pass: the callback has been called once with each index the list
\* had when the pass began, in order, and each of those asteroids is where it
\* was, with the blast applied once if it is within the radius
C30_Evaluated(blast) ==
  /\ blast.seen = [i \in 1..Len(blast.before) |-> i]
  /\ Len(blast.after) >= Len(blast.before)
  /\ \A i \in 1..Len(blast.before) :
       blast.after[i] =
         IF InBlast(blast.mine, blast.before[i])
           THEN LET new == BlastOne(blast.mine, blast.before[i], AsteroidSide)
                IN IF Crossed(blast.before[i], new)
                     THEN [new EXCEPT !.breaks = @ + 1] ELSE new
         ELSE blast.before[i]

\* what the pass has left behind the asteroids it began with are the fragments
\* of those it broke, as breakAsteroid spawned them
C30_Fragments(blast) ==
  \A j \in (Len(blast.before) + 1)..Len(blast.after) :
    \E i \in 1..Len(blast.before) :
      /\ InBlast(blast.mine, blast.before[i])
      /\ Crossed(blast.before[i], blast.after[i])
      /\ \E k \in 1..10 :
           LET fragments == breakAsteroid(blast.before[i],
                              Dir(blast.mine.y, blast.before[i].y, AsteroidSide)
                                * BlastForce(distance(blast.mine.y, blast.before[i].y)))
           IN k <= Len(fragments) /\ blast.after[j] = fragments[k]

\* the collision pass: the callback has been called once with each index, in
\* order, and the list it leaves holds the same asteroids in the same places
C30_Collided ==
  LET pass == tickLog.collided
  IN /\ pass.seen = [i \in 1..Len(pass.before) |-> i]
     /\ Len(asteroids) = Len(pass.before)
     /\ \A i \in 1..Len(pass.before) :
          /\ asteroids[i].tier = pass.before[i].tier
          /\ asteroids[i].y = pass.before[i].y
          /\ asteroids[i].breaks = pass.before[i].breaks
          /\ \/ asteroids[i].hp2 = pass.before[i].hp2
                  /\ asteroids[i].picks = pass.before[i].picks
             \/ asteroids[i].tier = "ORE" /\ asteroids[i].hp2 = 0
                  /\ asteroids[i].picks = pass.before[i].picks + 1

\* C30 as stated: in a tick every pass evaluates each asteroid exactly once,
\* and the list neither grows nor shrinks while a pass runs
C30_NothingInserted ==
  tickLog.event = "frame" =>
    /\ \A k \in 1..Len(tickLog.blasts) :
         /\ C30_Evaluated(tickLog.blasts[k])
         /\ Len(tickLog.blasts[k].after) = Len(tickLog.blasts[k].before)
    /\ C30_Collided

\* C30: in a tick every pass (one blast pass per detonating mine, one collision
\* pass) calls its callback exactly once for each asteroid the list held when
\* the pass began, and no asteroid leaves the list or changes place while a
\* pass runs; the fragments of a detonation are pushed behind the list while
\* its pass runs, beyond the indexes the pass covers, so they are as spawned
\* when it ends; the next detonation of the tick begins with that list, and the
\* collision pass with what of it has hp > 0
C30_PassesOfATick ==
  tickLog.event = "frame" =>
    /\ \A k \in 1..Len(tickLog.blasts) :
         /\ C30_Evaluated(tickLog.blasts[k])
         /\ C30_Fragments(tickLog.blasts[k])
         /\ k > 1 => tickLog.blasts[k].before = tickLog.blasts[k - 1].after
    /\ tickLog.blasts # << >> =>
         tickLog.collided.before = Alive(tickLog.blasts[Len(tickLog.blasts)].after)
    /\ C30_Collided

\* two mines have gone off in one frame: the first broke asteroids, the second
\* reached a fragment of the first, and the collision pass ran over what was left
C30_Witness ==
  /\ tickLog.event = "frame"
  /\ Len(tickLog.blasts) = 2
  /\ Len(tickLog.blasts[1].after) > Len(tickLog.blasts[1].before)
  /\ \E n \in 1..Len(tickLog.blasts[2].applied) :
       tickLog.blasts[2].applied[n] > Len(tickLog.blasts[1].before)
  /\ tickLog.collided.seen # << >>

\* ------------------------------------------------------------ seeding a sector
\* a game at the end of one of its first sectors, cleared or lost, with or
\* without upgrades, with what the sector has left in the field; the next sector
\* or a new game is seeded and its first frame is played
MaxSeedSector == 6

SectorEnds ==
  /\ sector \in 1..(MaxSeedSector - 1)
  /\ levelInitialAsteroids = volatileCount(sector) + BASE_TITANS + 2 * (sector - 1)
  /\ \E lost \in BOOLEAN : \E left \in {0, 1} : \E hold \in {0, 20} : \E plus \in {0, 1} :
       /\ gameState = IF lost THEN "GAME_OVER" ELSE "SECTOR_CLEARED"
       /\ lost \/ SectorDone(levelInitialAsteroids, left)
       /\ prevGameState = gameState
       /\ upgrades = [InitialUpgrades EXCEPT !.hullLevel = @ + plus,
                                             !.cargoLevel = @ + plus,
                                             !.shieldLevel = @ + plus]
       /\ ship = [ y |-> TitanSeedY, vy |-> 0,
                   hull |-> IF lost THEN -50 * plus ELSE 100,
                   maxHull |-> 100 + 50 * plus,
                   shield |-> 0, maxShield |-> 100 * plus,
                   cargo |-> hold, maxCargo |-> 20 + 20 * plus,
                   credits |-> 250 * plus, ammo |-> 0,
                   invulnerableTimer |-> IF lost THEN HIT_INVULNERABLE - 1 ELSE 0 ]
       /\ asteroids = Repeat(left, spawnAsteroid("TITAN", TitanSeedY, 0))
                        \o Repeat(AMBIENT_ORE - hold \div 2,
                                  spawnAsteroid("ORE", OreSeedY, 0))
       /\ sectorStats = IF lost THEN [percent |-> 0, ore |-> 0]
                        ELSE [ percent |-> Percent(levelInitialAsteroids, left),
                               ore |-> hold \div 2 ]
       /\ sectorOreCollected = hold \div 2
       /\ clearedCalls = IF lost THEN 0 ELSE 1
  /\ mines = << >>
  /\ particles = NoParticles
  /\ prevSector = sector
  /\ cameraRef = [ zoom |-> ZoomStart ]
  /\ audio = init(AudioController)
  /\ tickLog = LogSince("frame", Calm)

\* the menu, or the end of a sector
InitSeed == Init \/ SectorEnds

\* the first frame after a seeding, with the controls as the player likes
SeedFrame ==
  /\ tickLog.event \in {"start", "next"}
  /\ \E in \in FrameInputs :
       /\ in.laser = 0
       /\ ~in.thrust
       /\ update(in)

NextSeed ==
  \/ handleStartGame
  \/ handleNextSectorUpTo(MaxSeedSector)
  \/ SeedFrame

SpecSeed == InitSeed /\ [][NextSeed]_vars

C31_Count(asts, tier) == Cardinality({ i \in 1..Len(asts) : asts[i].tier = tier })

\* C31: a re-seed of sector 1 leaves exactly 4 TITAN, no VOLATILE and 10 ORE; a
\* re-seed of sector s >= 2 leaves exactly 2 * (s - 1) VOLATILE, between
\* 4 + 2 * (s - 1) and 4 + 5 * (s - 1) TITAN, and 10 ORE; nothing else is in the
\* field, and levelInitialAsteroids is the number of TITAN plus VOLATILE
C31_Step ==
  tickLog'.event \in {"start", "next"} =>
    LET titans == C31_Count(asteroids', "TITAN")
        volatiles == C31_Count(asteroids', "VOLATILE")
        ores == C31_Count(asteroids', "ORE")
    IN /\ ores = 10
       /\ Len(asteroids') = titans + volatiles + ores
       /\ levelInitialAsteroids' = titans + volatiles
       /\ IF sector' = 1
            THEN titans = 4 /\ volatiles = 0
            ELSE /\ volatiles = 2 * (sector' - 1)
                 /\ 4 + 2 * (sector' - 1) <= titans
                 /\ titans <= 4 + 5 * (sector' - 1)

C31_SectorSeeding == [][C31_Step]_vars

\* a sector beyond the second has just been seeded with the most TITANs it can get
C31_Witness ==
  /\ tickLog.event = "next"
  /\ sector > 2
  /\ C31_Count(asteroids, "TITAN") = 4 + 5 * (sector - 1)
  /\ C31_Count(asteroids, "VOLATILE") = 2 * (sector - 1)

\* C32: a start from MENU or GAME_OVER leaves sector 1, 100 credits, 3 charges,
\* every upgrade level at its starting value, the hull at maxHull and the shield
\* at maxShield; the frame that follows begins with hull > 0, takes nothing from
\* the hull and does not end the game
C32_Step ==
  /\ (tickLog'.event = "start" /\ gameState \in {"MENU", "GAME_OVER"}) =>
       /\ gameState' = "PLAYING"
       /\ sector' = 1
       /\ ship'.credits = 100
       /\ ship'.ammo = 3
       /\ upgrades' = [ engineLevel |-> 1, handlingLevel |-> 1, hullLevel |-> 1,
                        cargoLevel |-> 1, laserLevel |-> 1, shieldLevel |-> 0 ]
       /\ ship'.maxHull = 100
       /\ ship'.hull = ship'.maxHull
       /\ ship'.maxShield = 0
       /\ ship'.shield = ship'.maxShield
  /\ (tickLog.event = "start" /\ tickLog'.event = "frame") =>
       /\ ship.hull > 0
       /\ ship'.hull = ship.hull
       /\ gameState' # "GAME_OVER"

C32_Restart == [][C32_Step]_vars

\* the first frame of a game started after one that was lost with a full hold
C32_Witness ==
  /\ tickLog.event = "frame"
  /\ gameState = "PLAYING"
  /\ sector = 1
  /\ ship.cargo = 20
  /\ ship.invulnerableTimer = SPAWN_INVULNERABLE - 1
  /\ ship.hull = 100
  /\ ship.maxCargo = 20
  /\ upgrades = InitialUpgrades

\* C33: with shieldLevel > 0, the step that docks the ship and the purchase of
\* an upgrade both leave the shield at maxShield
C33_Docks == gameState = "PLAYING" /\ gameState' = "DOCKED"

C33_Upgraded ==
  /\ tickLog'.event = "shop"
  /\ tickLog'.loops = NoLoops
  /\ tickLog'.shop.kind \in UpgradeTypes
  /\ tickLog'.shop.synced

C33_ShieldRecharged ==
  [][ (upgrades'.shieldLevel > 0 /\ (C33_Docks \/ C33_Upgraded))
        => ship'.shield = ship'.maxShield ]_vars

\* ------------------------------------------------------------ a launch
\* the ship on the axis through the station with the keys up, no mine laid and
\* the asteroids of the seed, none of which is within reach of it.  Its place
\* and its velocity are binary64 numbers; each is kept as a pair lo..hi of
\* millionths that holds it, widened by one at every operation (the rounding
\* of a binary64 product or sum of this size is far below a millionth)
Micro == 1000000

Exactly(n) == [ lo |-> n * Micro, hi |-> n * Micro ]

\* update, Apply Friction: ship.vy *= FRICTION (0.98)
Friction(v) ==
  [ lo |-> (v.lo * 98) \div 100 - 1, hi |-> -((-v.hi * 98) \div 100) + 1 ]

\* update, Apply Friction: ship.y += ship.vy
Moved(y, v) == [ lo |-> y.lo + v.lo - 1, hi |-> y.hi + v.hi + 1 ]

\* the least and the greatest magnitude a pair holds
Least(p) == IF p.lo > 0 THEN p.lo ELSE IF p.hi < 0 THEN -p.hi ELSE 0
Most(p) == IF -p.lo > p.hi THEN -p.lo ELSE p.hi

\* update, 7. Station Docking: the condition, when it holds whatever the numbers
\* in the pairs are, and when it fails whatever they are
DocksSurely(s) ==
  Most(s.y) < (STATION_RADIUS + SHIP_RADIUS) * Micro /\ Most(s.vy) < Micro
DocksNever(s) ==
  Least(s.y) >= (STATION_RADIUS + SHIP_RADIUS) * Micro \/ Least(s.vy) >= Micro

\* the ship has left the docking radius and is too slow to come back
Adrift(s) ==
  Least(s.y) >= (STATION_RADIUS + SHIP_RADIUS) * Micro /\ Most(s.vy) < Micro

\* the places, on the axis, where the ship lies docked at first
DockPosts == {0, -100, -164}

\* a game just started, or a ship at rest in the dock, its nose (heading: the
\* sine of ship.angle) away from the station's far side or towards it
InitLaunch ==
  /\ sector = 1
  /\ sectorStats = [percent |-> 0, ore |-> 0]
  /\ upgrades = InitialUpgrades
  /\ asteroids = Seed(1, BASE_TITANS)
  /\ mines = << >>
  /\ particles = NoParticles
  /\ prevSector = 1
  /\ levelInitialAsteroids = BASE_TITANS
  /\ sectorOreCollected = 0
  /\ cameraRef = [ zoom |-> ZoomStart ]
  /\ audio = init(AudioController)
  /\ clearedCalls = 0
  /\ \/ /\ gameState = "PLAYING"
        /\ ship = [ y |-> Exactly(0), vy |-> Exactly(-SPAWN_SPEED), heading |-> -1,
                    hull |-> 100, maxHull |-> 100, shield |-> 0, maxShield |-> 0,
                    cargo |-> 0, maxCargo |-> 20, credits |-> STARTING_CREDITS,
                    ammo |-> STARTING_AMMO, invulnerableTimer |-> SPAWN_INVULNERABLE ]
        /\ tickLog = LogSince("start", Calm)
     \/ /\ gameState = "DOCKED"
        /\ \E post \in DockPosts : \E heading \in {-1, 1} :
             ship = [ y |-> Exactly(post), vy |-> Exactly(0), heading |-> heading,
                      hull |-> 100, maxHull |-> 100, shield |-> 0, maxShield |-> 0,
                      cargo |-> 0, maxCargo |-> 20, credits |-> STARTING_CREDITS,
                      ammo |-> STARTING_AMMO, invulnerableTimer |-> 0 ]
        /\ tickLog = LogSince("frame", Calm)
  /\ prevGameState = gameState

\* handleUndock: s.vy = Math.sin(s.angle) * launchSpeed
LaunchUndock ==
  /\ gameState = "DOCKED"
  /\ Commit("PLAYING", sector,
            [Component EXCEPT !.ship = [ship EXCEPT !.vy = Exactly(ship.heading * LAUNCH_SPEED)]],
            BASE_TITANS)
  /\ tickLog' = Log("undock")
  /\ UNCHANGED << sectorStats, upgrades, audio >>

\* update with the keys up: friction, the move, the docking test and the timer
\* (no asteroid is near, none is hit, the sector is not cleared, the hull is whole)
LaunchFrame ==
  /\ gameState = "PLAYING"
  /\ ~Adrift(ship)
  /\ \E v \in {Friction(ship.vy)} : \E s1 \in {[ship EXCEPT !.vy = v, !.y = Moved(@, v)]} :
     \E docks \in BOOLEAN : \E snd \in {Loops(audio, FALSE, FALSE, FALSE)} :
       /\ docks => ~DocksNever(s1)
       /\ ~docks => ~DocksSurely(s1)
       /\ audio' = snd.audio
       /\ tickLog' = [LogSince("frame", Min(tickLog.calm + 1, Calm)) EXCEPT
                        !.gap = Min(tickLog.calm + 1, Calm),
                        !.requests = IF docks THEN << "DOCKED" >> ELSE << >>,
                        !.loops = snd.log,
                        !.collided = [ before |-> asteroids,
                                       seen |-> [i \in 1..Len(asteroids) |-> i] ]]
       /\ Commit(IF docks THEN "DOCKED" ELSE "PLAYING", sector,
                 [Component EXCEPT
                    !.ship = [s1 EXCEPT !.invulnerableTimer = TimerTick(@)]],
                 BASE_TITANS)
  /\ UNCHANGED << sectorStats, upgrades >>

NextLaunch ==
  \/ LaunchUndock
  \/ LaunchFrame

SpecLaunch == InitLaunch /\ [][NextLaunch]_vars

\* C34: a ship launched by an undock or by a re-seed and left alone is never
\* docked by a frame: it is not docked on the tick after the launch, and it has
\* left the docking radius when its speed falls below 1
C34_LaunchLeaves ==
  [][ gameState = "PLAYING" => gameState' # "DOCKED" ]_vars

\* C35: an ORE is collected at most once: it has had at most one pickup as long
\* as it is in the list and when a filter drops it, no ORE that has been
\* collected comes before the collision pass of a later frame, a frame raises
\* the cargo and the sector's ore counter by the number of ORE it collects, and
\* nothing but a frame collects (docking, undocking, idle frames and the shop
\* leave every ORE and the counter as they are)
C35_Taken(asts) == { i \in 1..Len(asts) : asts[i].picks > 0 }

C35_Step ==
  /\ \A i \in C35_Taken(asteroids') :
       /\ asteroids'[i].picks = 1
       /\ asteroids'[i].tier = "ORE"
       /\ asteroids'[i].hp2 <= 0
  /\ IF gameState = "PLAYING" /\ tickLog'.event = "frame"
       THEN /\ C35_Taken(tickLog'.collided.before) = {}
            /\ \A i \in C35_Taken(tickLog'.purged) : tickLog'.purged[i].picks = 1
            /\ ship'.cargo = ship.cargo + Cardinality(C35_Taken(asteroids'))
            /\ sectorOreCollected' =
                 sectorOreCollected + Cardinality(C35_Taken(asteroids'))
       ELSE /\ tickLog'.event \notin {"start", "next"} =>
                 /\ asteroids' = asteroids
                 /\ sectorOreCollected' = sectorOreCollected
            /\ ship'.cargo <= ship.cargo

C35_OreOnce == [][C35_Step]_vars

\* a frame, with the laser on, has dropped an ORE that the frame before had
\* collected, while the ship, with room in its hold, still lies on it
C35_Witness ==
  /\ tickLog.event = "frame"
  /\ tickLog.laser.on
  /\ gameState = "PLAYING"
  /\ HasRoom(ship)
  /\ \E i \in C35_Taken(tickLog.purged) :
       checkCollision(ship.y, SHIP_RADIUS, tickLog.purged[i].y, ORE_RADIUS)

\* C36: the ship is hurt (loses hull or shield) at most once in a frame, however
\* many mines blow up and asteroids overlap it in that frame, and a frame that
\* hurts it comes at least 30 frames after the frame that hurt it last
C36_Step ==
  tickLog'.event = "frame" /\ gameState = "PLAYING" =>
    /\ Hurts(tickLog'.blasts, tickLog'.hits) <= 1
    /\ Hurts(tickLog'.blasts, tickLog'.hits) = 1 => tickLog'.gap >= 30

C36_OneHurtInThirty == [][C36_Step]_vars

\* the ship was hurt in this frame, exactly 30 frames after a blast took of its hull
C36_Witness ==
  /\ tickLog.event = "frame"
  /\ tickLog.gap = 30
  /\ Hurts(tickLog.blasts, tickLog.hits) = 1

\* C37: a frame outside PLAYING (in MENU, DOCKED, SECTOR_CLEARED or GAME_OVER)
\* leaves the ship, the asteroids, the mines with their timers, the particles
\* and the invulnerability timer as they are, with the phase and the sector's
\* counts; all it does is ask the three loops off
C37_IdleFrame ==
  /\ gameState # "PLAYING"
  /\ tickLog'.event = tickLog.event
  /\ \E loop \in C23_LoopNames : tickLog'.loops[loop].asked # ""

C37_Step ==
  C37_IdleFrame =>
    /\ UNCHANGED << ship, asteroids, mines, particles, gameState, sector, sectorStats,
                    upgrades, levelInitialAsteroids, sectorOreCollected, cameraRef >>
    /\ \A loop \in C23_LoopNames :
         /\ tickLog'.loops[loop].asked = "off"
         /\ tickLog'.loops[loop].did \in {"", "stop"}
         /\ ~C23_Flag(audio', loop)
    /\ audio'.ctx = audio.ctx
    /\ [tickLog' EXCEPT !.loops = NoLoops] = [tickLog EXCEPT !.loops = NoLoops]

C37_Frozen == [][C37_Step]_vars

\* a frame ran outside PLAYING with a mine counting down, the invulnerability
\* timer running, and particles and asteroids in the field
C37_Witness ==
  /\ gameState # "PLAYING"
  /\ tickLog.loops.thrust.asked = "off"
  /\ mines # << >>
  /\ ship.invulnerableTimer > 0
  /\ particles # NoParticles
  /\ asteroids # << >>

\* ------------------------------------------------------------ the loops' nodes
\* AudioController with the nodes of its loops.  A voice is what one on request
\* builds and starts: the source (the noise of the thrust, the oscillator of the
\* laser with its LFO, the oscillator of the tractor) and the gain it is
\* connected through.  node[f] is the voice the fields of loop f point at
\* (thrustNode and thrustGain, laserOsc, laserLFO and laserGain, tractorOsc and
\* tractorGain), 0 while they are null; timeouts[f] are the callbacks setTimeout
\* holds for the loop, in the order they were scheduled, each with the voice
\* the fields pointed at when it was scheduled (history: the callback itself
\* reads the fields when it runs)
MaxVoices == 4
LoopFlags == {"isThrusting", "isFiring", "isTractoring"}

WithNodes(a) ==
  a @@ [ node |-> [f \in LoopFlags |-> 0], voices |-> << >>,
         timeouts |-> [f \in LoopFlags |-> << >>] ]

\* set*, the first branch: the nodes are created, connected and started, and
\* the fields set to them
startVoice(a, f) ==
  [a EXCEPT !.voices = Append(@, [ loop |-> f, source |-> "running", gain |-> "connected" ]),
            !.node[f] = Len(a.voices) + 1]

\* set*, the second branch: if (this.thrustGain) { ramp to 0; setTimeout(...) }
scheduleStop(a, f) ==
  IF a.node[f] = 0 THEN a ELSE [a EXCEPT !.timeouts[f] = Append(@, a.node[f])]

\* one call of setThrust, setLaser or setTractor, nodes and all
setLoopNodes(a, f, active) ==
  LET set == setLoop(a, f, active)
  IN CASE set.did = "start" -> startVoice(set.audio, f)
       [] set.did = "stop" -> scheduleStop(set.audio, f)
       [] OTHER -> set.audio

\* the callback of setTimeout: this.thrustNode?.stop(); this.thrustGain?.disconnect(),
\* on what the fields point at when it runs
stopCallback(a, f) ==
  LET n == a.node[f]
      rest == [a EXCEPT !.timeouts[f] = Tail(@)]
  IN IF n = 0 THEN rest
     ELSE [rest EXCEPT !.voices[n].source = "stopped", !.voices[n].gain = "disconnected"]

\* a game just started (audio.init() has run), the loops off
InitAudio ==
  /\ gameState = "PLAYING"
  /\ sector = 1
  /\ sectorStats = [percent |-> 0, ore |-> 0]
  /\ ship = [ y |-> 0, vy |-> -SPAWN_SPEED, hull |-> 100, maxHull |-> 100, shield |-> 0,
              maxShield |-> 0, cargo |-> 0, maxCargo |-> 20,
              credits |-> STARTING_CREDITS, ammo |-> STARTING_AMMO,
              invulnerableTimer |-> SPAWN_INVULNERABLE ]
  /\ upgrades = InitialUpgrades
  /\ asteroids = Seed(1, BASE_TITANS)
  /\ mines = << >>
  /\ particles = NoParticles
  /\ prevGameState = "PLAYING"
  /\ prevSector = 1
  /\ levelInitialAsteroids = BASE_TITANS
  /\ sectorOreCollected = 0
  /\ cameraRef = [ zoom |-> ZoomStart ]
  /\ audio = WithNodes(init(AudioController))
  /\ clearedCalls = 0
  /\ tickLog = [ event |-> "start" ]

Game ==
  << gameState, sector, sectorStats, ship, upgrades, asteroids, mines, particles,
     prevGameState, prevSector, levelInitialAsteroids, sectorOreCollected,
     cameraRef, clearedCalls >>

\* a call of the setter of loop f, on or off; no more than MaxVoices voices are built
CallSetter(f) ==
  \E active \in BOOLEAN :
    /\ StartsLoop(active, audio[f]) => Len(audio.voices) < MaxVoices
    /\ audio' = setLoopNodes(audio, f, active)
    /\ tickLog' = [ event |-> "set", loop |-> f, active |-> active ]
    /\ UNCHANGED Game

\* the oldest callback setTimeout holds for loop f runs
RunTimeout(f) ==
  /\ audio.timeouts[f] # << >>
  /\ audio' = stopCallback(audio, f)
  /\ tickLog' = [ event |-> "timeout", loop |-> f, scheduledAt |-> Head(audio.timeouts[f]),
                  stopped |-> audio.node[f] ]
  /\ UNCHANGED Game

ThrustSet == CallSetter("isThrusting")
LaserSet == CallSetter("isFiring")
TractorSet == CallSetter("isTractoring")
ThrustTimeout == RunTimeout("isThrusting")
LaserTimeout == RunTimeout("isFiring")
TractorTimeout == RunTimeout("isTractoring")

NextAudio ==
  \/ ThrustSet
  \/ LaserSet
  \/ TractorSet
  \/ ThrustTimeout
  \/ LaserTimeout
  \/ TractorTimeout

SpecAudio == InitAudio /\ [][NextAudio]_vars

\* C38, as stated: while a loop is flagged active the source it started last is
\* running and connected, whatever the order of the on and off requests and the
\* deferred stop callbacks; and the callback an off request scheduled stops the
\* source that was playing at that request, never one started later
C38_LoopSounds ==
  /\ \A f \in LoopFlags :
       audio[f] => /\ audio.node[f] # 0
                   /\ audio.voices[audio.node[f]].source = "running"
                   /\ audio.voices[audio.node[f]].gain = "connected"
  /\ tickLog.event = "timeout" => tickLog.stopped = tickLog.scheduledAt

\* C39: from one re-seed to the next the number of TITAN and VOLATILE asteroids
\* in the list never goes up and never passes levelInitialAsteroids, the count
\* the re-seed tracked, which only a re-seed changes; so the destroyed count of
\* the sector-cleared check, levelInitialAsteroids less those left, is never
\* negative, and neither is the percentage reported
C39_Big(asts) ==
  Cardinality({ i \in 1..Len(asts) : asts[i].tier \in {"TITAN", "VOLATILE"} })

C39_Step ==
  /\ C39_Big(asteroids') <= levelInitialAsteroids'
  /\ tickLog'.event \notin {"start", "next"} =>
       /\ C39_Big(asteroids') <= C39_Big(asteroids)
       /\ levelInitialAsteroids' = levelInitialAsteroids
  /\ sectorStats'.percent \in 0..100

C39_BigOnesOnlyGo == [][C39_Step]_vars

\* in a later sector, a frame's blast has broken some of the TITANs and
\* VOLATILEs into CHUNKs and left others
C39_Witness ==
  /\ tickLog.event = "frame"
  /\ sector > 1
  /\ tickLog.breaks # << >>
  /\ C39_Big(asteroids) > 0
  /\ C39_Big(asteroids) < levelInitialAsteroids
  /\ \E i \in 1..Len(asteroids) : asteroids[i].tier = "CHUNK"

====
